---- MODULE Spec2Model ----
(***************************************************************************)
(* Route comparison and composition pipeline of grangarda:                 *)
(*   - the Blended Route Assembler and the selection link codec            *)
(*     (src/src/App.tsx),                                                  *)
(*   - the Divergence Segmentation Engine (src/scripts/analyze-segments.ts)*)
(*   - the Day-Split Partitioner (src/unnamed/part_000).                   *)
(*                                                                         *)
(* Numbers.  Coordinates are points of a planar grid measured in metres,   *)
(* and the great-circle distance is the taxicab metric of that grid, so    *)
(* that every distance is an integer number of metres.  A field that the   *)
(* code keeps in kilometres (distanceKm) holds the same length in metres.  *)
(* A missing value (null) is the empty sequence and a present value r is   *)
(* the one-element sequence <<r>>.  A string that the code builds or       *)
(* parses character by character is a sequence of one-character strings.   *)
(* A reference to an element of an array (the ElevationPoint objects that   *)
(* findPointAtDistance and downsampleProfile hand back) is the 0-based      *)
(* index of the element, so that two points with equal fields remain two    *)
(* objects.  A grade is the exact fraction [num, den], and so is a          *)
(* breakpoint of the session, which parseFloat reads from the link.         *)
(***************************************************************************)
EXTENDS Integers, Sequences, FiniteSets, TLC

VARIABLES
    pc,                 \* position of the run that is being modelled
    segments,           \* Segment[]: engine output, assembler input
    selections,         \* Map<string, RouteChoice> handed to the assembler / codec
    blendedRoute,       \* BlendedRoute | null returned by buildBlendedRoute
    param,              \* the link's route parameter
    decoded,            \* Map returned by decodeSelectionsFromUrl
    gravelCoords,       \* parsed primary track
    tarmacCoords,       \* parsed secondary track
    gravelRoute,        \* primary track with cumulative distances
    tarmacRoute,        \* secondary track with cumulative distances
    sampledGravel,      \* primary track sampled every 50 m
    sampledTarmac,      \* secondary track sampled every 50 m
    overlapAnalysis,    \* overlap status of every sampled primary point
    transitions,        \* raw transition points
    mergedTransitions,  \* transition points after the merge pass
    breakpoints,        \* number[]: breakpoint percentages handed to the partitioner
    daySplits,          \* DaySplit[] returned by generateDaySplits
    breakpointCoordinates,  \* Breakpoint[] returned by getBreakpointCoordinates
    trackCoords,        \* Position[] of the track feature handed to the profile builder
    elevationProfile,   \* ElevationPoint[] returned by extractElevationProfile
    queryDistance,      \* target distance of a point-at-distance lookup
    pointAtDistance,    \* ElevationPoint | null returned by findPointAtDistance
    maxChartPoints,     \* maxPoints of a downsampleProfile call
    chartPoints,        \* ElevationPoint[] returned by downsampleProfile
    isBuilding,         \* session: build mode is on
    savedSelections,    \* session: the saved selection map
    numberOfDays,       \* session: the selected number of days
    daysParam,          \* the link's days parameter
    effects,            \* session: dependencies changed by the last commit
    queryCoord,         \* query coordinate of a nearest-point lookup
    closestPoint,       \* ElevationPoint | null returned by findClosestPoint
    nearestPoint,       \* { point, distance } returned by findNearestPoint
    searchPercentage,   \* percentage passed to percentageToCoordIndex
    searchTotal,        \* totalDistance passed to percentageToCoordIndex
    searchIndex         \* index returned by percentageToCoordIndex

codecVars == <<selections, blendedRoute, param, decoded>>
engineVars == <<gravelCoords, tarmacCoords, gravelRoute, tarmacRoute,
                sampledGravel, sampledTarmac, overlapAnalysis, transitions,
                mergedTransitions>>
dayVars == <<breakpoints, daySplits, breakpointCoordinates>>
profileVars == <<trackCoords, elevationProfile, queryDistance,
                 pointAtDistance, maxChartPoints, chartPoints>>
sessionVars == <<isBuilding, savedSelections, numberOfDays, daysParam,
                 effects>>
nearVars == <<queryCoord, closestPoint, nearestPoint>>
searchVars == <<searchPercentage, searchTotal, searchIndex>>
vars == <<pc, segments, codecVars, engineVars, dayVars, profileVars,
          sessionVars, nearVars, searchVars>>

\* ------------------------------------------------------------------ bounds
MaxSegs == 3            \* segments in an assembler input
MaxCoords == 2          \* coordinates of one option of one segment
MaxUrlSegs == 10        \* segments in a long (alternating) list of the codec
MaxTokens == 3          \* hyphen-separated pieces of a link parameter
MaxPts == 6             \* points of an input track
MaxRoutePts == 4        \* coordinates of a blended route handed to the partitioner
MaxBreaks == 2          \* breakpoints handed to the partitioner
MaxProfilePts == 6      \* positions of a track handed to the profile builder
MaxCap == 4             \* largest maxPoints of a downsampleProfile call
MaxDayPieces == 2       \* comma-separated pieces of a link's days parameter
MaxNearPts == 3        \* points of a track searched for the nearest point
MaxDays == 3           \* days offered by the day selector
MaxPlanSegs == 2       \* segments of a session with the day planner
MaxHandles == 2        \* handles of a slider moved on its own

\* ------------------------------------------------------ program constants
OVERLAP_THRESHOLD_METERS == 100
MIN_SEGMENT_LENGTH_METERS == 500
SAMPLE_INTERVAL_METERS == 50
Infinity == 1000000000
GRADE_WINDOW == 10
SliderMin == 0
SliderMax == 100
SliderMinGap == 5

\* ------------------------------------------------------------- primitives
Null == <<>>
Some(v) == <<v>>

Abs(n) == IF n < 0 THEN -n ELSE n

EmptyMap == [k \in {} |-> "gravel"]
MapSet(m, k, v) == [x \in (DOMAIN m) \cup {k} |-> IF x = k THEN v ELSE m[x]]

\* haversineDistance(coord1, coord2), in metres
haversineDistance(coord1, coord2) ==
    Abs(coord2.lat - coord1.lat) + Abs(coord2.lng - coord1.lng)

\* addDistances(coordinates): RoutePoint[] with the cumulative distance
RECURSIVE addDistancesFrom(_, _, _, _)
addDistancesFrom(coordinates, i, cumulativeDistance, acc) ==
    IF i > Len(coordinates) THEN acc
    ELSE LET d == IF i > 1
                  THEN cumulativeDistance
                       + haversineDistance(coordinates[i - 1], coordinates[i])
                  ELSE cumulativeDistance
         IN addDistancesFrom(coordinates, i + 1, d,
                Append(acc, [lng |-> coordinates[i].lng,
                             lat |-> coordinates[i].lat,
                             elevation |-> coordinates[i].elevation,
                             distanceFromStart |-> d]))

addDistances(coordinates) == addDistancesFrom(coordinates, 1, 0, <<>>)

\* calculateSegmentStats(points) of the segmentation script
RECURSIVE StatsLoop(_, _, _)
StatsLoop(points, i, acc) ==
    IF i > Len(points) THEN acc
    ELSE LET diff == points[i].elevation - points[i - 1].elevation
         IN StatsLoop(points, i + 1,
                [totalDistance |-> acc.totalDistance
                                   + haversineDistance(points[i - 1], points[i]),
                 elevationGain |-> IF diff > 0 THEN acc.elevationGain + diff
                                   ELSE acc.elevationGain,
                 elevationLoss |-> IF diff > 0 THEN acc.elevationLoss
                                   ELSE acc.elevationLoss + Abs(diff)])

calculateSegmentStats(points) ==
    IF Len(points) = 0
    THEN [coordinates |-> <<>>, distanceKm |-> 0,
          elevationGain |-> 0, elevationLoss |-> 0]
    ELSE LET s == StatsLoop(points, 2,
                    [totalDistance |-> 0, elevationGain |-> 0, elevationLoss |-> 0])
         IN [coordinates |-> [k \in 1..Len(points) |->
                                <<points[k].lng, points[k].lat, points[k].elevation>>],
             distanceKm |-> s.totalDistance,
             elevationGain |-> s.elevationGain,
             elevationLoss |-> s.elevationLoss]

\* `seg-${i + 1}` and order: i + 1 for the span at index i (0-based)
SegOrderZeroBased(i) == i

SegOrder(i) == i + 1
SegId(order) == "seg-" \o ToString(order)

\* ---------------------------------------------- Divergence Segmentation Engine
\* findNearestPoint(point, route): the first point at the least distance;
\* route[0] (undefined for an empty route) and Infinity when no point is nearer
RECURSIVE NearestLoop(_, _, _, _)
NearestLoop(point, route, i, best) ==
    IF i > Len(route) THEN best
    ELSE LET distance == haversineDistance(point, route[i])
         IN IF distance < best.distance
            THEN NearestLoop(point, route, i + 1,
                             [point |-> Some(route[i]), distance |-> distance])
            ELSE NearestLoop(point, route, i + 1, best)

findNearestPoint(point, route) ==
    NearestLoop(point, route, 1,
        [point |-> IF Len(route) = 0 THEN Null ELSE Some(route[1]),
         distance |-> Infinity])

\* sampleRoute(route, intervalMeters), as the indices of the sampled points
RECURSIVE SampleLoop(_, _, _, _, _)
SampleLoop(route, intervalMeters, i, sampled, lastSampledDistance) ==
    IF i > Len(route) THEN sampled
    ELSE LET currentDistance == route[i].distanceFromStart
         IN IF currentDistance - lastSampledDistance >= intervalMeters
            THEN SampleLoop(route, intervalMeters, i + 1,
                            Append(sampled, i), currentDistance)
            ELSE SampleLoop(route, intervalMeters, i + 1,
                            sampled, lastSampledDistance)

SampleIndices(route, intervalMeters) ==
    IF Len(route) = 0 THEN <<>>
    ELSE LET sampled == SampleLoop(route, intervalMeters, 2, <<1>>, 0)
         IN IF sampled[Len(sampled)] # Len(route)
            THEN Append(sampled, Len(route))
            ELSE sampled

sampleRoute(route, intervalMeters) ==
    LET idx == SampleIndices(route, intervalMeters)
    IN [k \in 1..Len(idx) |-> route[idx[k]]]

\* analyzeOverlap(primaryRoute, secondaryRoute, threshold)
analyzeOverlap(primaryRoute, secondaryRoute, threshold) ==
    [k \in 1..Len(primaryRoute) |->
        LET nearest == findNearestPoint(primaryRoute[k], secondaryRoute)
        IN [point |-> primaryRoute[k],
            isOverlapping |-> nearest.distance <= threshold,
            nearestOnSecondary |-> nearest.point]]

\* the transition points of a non-empty overlap analysis, final one included
RECURSIVE TransitionLoop(_, _, _, _)
TransitionLoop(analysis, i, currentOverlap, acc) ==
    IF i > Len(analysis) THEN <<acc, currentOverlap>>
    ELSE IF analysis[i].isOverlapping # currentOverlap
         THEN TransitionLoop(analysis, i + 1, analysis[i].isOverlapping,
                Append(acc, [distance |-> analysis[i].point.distanceFromStart,
                             isOverlapping |-> analysis[i].isOverlapping]))
         ELSE TransitionLoop(analysis, i + 1, currentOverlap, acc)

FindTransitions(analysis, sampled) ==
    LET first == analysis[1].isOverlapping
        scan == TransitionLoop(analysis, 2, first,
                               <<[distance |-> 0, isOverlapping |-> first]>>)
    IN Append(scan[1], [distance |-> sampled[Len(sampled)].distanceFromStart,
                        isOverlapping |-> scan[2]])

ShouldMergeLong(segmentLength, minLength, mergedLength) ==
    segmentLength > minLength /\ mergedLength > 1

\* segmentLength < minLength && merged.length > 1
ShouldMerge(segmentLength, minLength, mergedLength) ==
    segmentLength < minLength /\ mergedLength > 1

\* mergeSmallSegments(transitions, minLength)
RECURSIVE MergeLoop(_, _, _, _)
MergeLoop(trans, minLength, i, merged) ==
    IF i > Len(trans) THEN merged
    ELSE LET lastMerged == merged[Len(merged)]
             current == trans[i]
             segmentLength == current.distance - lastMerged.distance
         IN IF ShouldMerge(segmentLength, minLength, Len(merged))
            THEN MergeLoop(trans, minLength, i + 1,
                           SubSeq(merged, 1, Len(merged) - 1))
            ELSE MergeLoop(trans, minLength, i + 1, Append(merged, current))

mergeSmallSegments(trans, minLength) ==
    IF Len(trans) <= 1 THEN trans
    ELSE MergeLoop(trans, minLength, 2, <<trans[1]>>)

\* extractRouteSection(route, startDistance, endDistance)
InSection(p, startDistance, endDistance) ==
    p.distanceFromStart >= startDistance /\ p.distanceFromStart <= endDistance

extractRouteSection(route, startDistance, endDistance) ==
    SelectSeq(route, LAMBDA p : InSection(p, startDistance, endDistance))

\* findCorrespondingSection(primarySection, secondaryRoute); reading
\* distanceFromStart of an undefined nearest point raises
findCorrespondingSection(primarySection, secondaryRoute) ==
    IF Len(primarySection) = 0 THEN [raised |-> FALSE, section |-> <<>>]
    ELSE LET startNearest == findNearestPoint(primarySection[1], secondaryRoute)
             endNearest == findNearestPoint(primarySection[Len(primarySection)],
                                            secondaryRoute)
         IN IF startNearest.point = Null \/ endNearest.point = Null
            THEN [raised |-> TRUE, section |-> <<>>]
            ELSE LET a == startNearest.point[1].distanceFromStart
                     b == endNearest.point[1].distanceFromStart
                     startDist == IF a < b THEN a ELSE b
                     endDist == IF a < b THEN b ELSE a
                 IN [raised |-> FALSE,
                     section |-> extractRouteSection(secondaryRoute,
                                                     startDist, endDist)]

SegTypeInverted(isOverlapping) == IF isOverlapping THEN "diverging" ELSE "shared"

\* type: isOverlapping ? 'shared' : 'diverging'
SegType(isOverlapping) == IF isOverlapping THEN "shared" ELSE "diverging"

\* the span of the segment built at index i (0-based) of the merged transitions
SpanOf(merged, i) ==
    [startDist |-> merged[i + 1].distance,
     endDist |-> merged[i + 2].distance,
     isOverlapping |-> merged[i + 1].isOverlapping]

\* the loop that builds the segments
RECURSIVE BuildLoop(_, _, _, _, _)
BuildLoop(merged, gRoute, tRoute, i, acc) ==
    IF ~(i < Len(merged) - 1) THEN [raised |-> FALSE, segments |-> acc]
    ELSE LET span == SpanOf(merged, i)
             gravelSection == extractRouteSection(gRoute, span.startDist,
                                                  span.endDist)
             tarmacSection == findCorrespondingSection(gravelSection, tRoute)
         IN IF tarmacSection.raised THEN [raised |-> TRUE, segments |-> acc]
            ELSE IF Len(gravelSection) = 0
            THEN BuildLoop(merged, gRoute, tRoute, i + 1, acc)
            ELSE BuildLoop(merged, gRoute, tRoute, i + 1,
                    Append(acc,
                        [id |-> SegId(SegOrder(i)),
                         type |-> SegType(span.isOverlapping),
                         order |-> SegOrder(i),
                         gravel |-> calculateSegmentStats(gravelSection),
                         tarmac |-> calculateSegmentStats(tarmacSection.section)]))

\* --------------------------------------------------- Blended Route Assembler
AllSelectedEverySegment(segs, sel) ==
    \A i \in 1..Len(segs) : segs[i].id \in DOMAIN sel

AllSelected(segs, sel) ==
    \A i \in 1..Len(segs) :
        segs[i].type = "diverging" => segs[i].id \in DOMAIN sel

SegmentData(segment, sel) ==
    IF segment.type = "shared" THEN segment.gravel
    ELSE IF segment.id \in DOMAIN sel /\ sel[segment.id] = "tarmac"
         THEN segment.tarmac
         ELSE segment.gravel

\* coordinates.push(...) of one segment: the first coordinate is skipped when
\* coordinates were already collected and this segment has some
PushCoordinatesWhole(coordinates, segCoords) == coordinates \o segCoords

PushCoordinates(coordinates, segCoords) ==
    IF Len(coordinates) > 0 /\ Len(segCoords) > 0
    THEN coordinates \o Tail(segCoords)
    ELSE coordinates \o segCoords

RECURSIVE BlendLoop(_, _, _, _)
BlendLoop(segs, sel, i, acc) ==
    IF i > Len(segs) THEN acc
    ELSE LET segmentData == SegmentData(segs[i], sel)
         IN BlendLoop(segs, sel, i + 1,
                [coordinates |-> PushCoordinates(acc.coordinates,
                                                 segmentData.coordinates),
                 distanceKm |-> acc.distanceKm + segmentData.distanceKm,
                 elevationGain |-> acc.elevationGain + segmentData.elevationGain,
                 elevationLoss |-> acc.elevationLoss + segmentData.elevationLoss,
                 selections |-> acc.selections])

buildBlendedRoute(segs, sel) ==
    IF ~AllSelected(segs, sel) THEN Null
    ELSE Some(BlendLoop(segs, sel, 1,
                [coordinates |-> <<>>, distanceKm |-> 0, elevationGain |-> 0,
                 elevationLoss |-> 0, selections |-> sel]))

\* ------------------------------------------------------ selection link codec
DigitChars == <<"0", "1", "2", "3", "4", "5", "6", "7", "8", "9">>
IsDigit(c) == \E d \in 1..10 : DigitChars[d] = c
DigitValue(c) == (CHOOSE d \in 1..10 : DigitChars[d] = c) - 1

SetMax(S) == CHOOSE x \in S : \A y \in S : y <= x

\* `${seg.order}`: the decimal numeral of a non-negative integer
RECURSIVE NumberToString(_)
NumberToString(n) ==
    IF n < 10 THEN <<DigitChars[n + 1]>>
    ELSE NumberToString(n \div 10) \o <<DigitChars[(n % 10) + 1]>>

\* parseInt(digits, 10) of a string of digits
RECURSIVE parseIntFrom(_, _, _)
parseIntFrom(digits, i, acc) ==
    IF i > Len(digits) THEN acc
    ELSE parseIntFrom(digits, i + 1, 10 * acc + DigitValue(digits[i]))

parseInt(digits) == parseIntFrom(digits, 1, 0)

\* parts.join("-")
RECURSIVE Join(_)
Join(parts) ==
    IF Len(parts) = 0 THEN <<>>
    ELSE IF Len(parts) = 1 THEN parts[1]
    ELSE parts[1] \o <<"-">> \o Join(Tail(parts))

\* param.split("-"): the pieces between the hyphens, empty pieces included
RECURSIVE SplitFrom(_, _, _, _)
SplitFrom(str, i, current, parts) ==
    IF i > Len(str) THEN Append(parts, current)
    ELSE IF str[i] = "-" THEN SplitFrom(str, i + 1, <<>>, Append(parts, current))
    ELSE SplitFrom(str, i + 1, Append(current, str[i]), parts)

Split(str) == SplitFrom(str, 1, <<>>, <<>>)

\* `${prefix}${seg.order}`
EncodeToken(choice, order) ==
    <<IF choice = "gravel" THEN "g" ELSE "t">> \o NumberToString(order)

RECURSIVE EncodeParts(_, _, _)
EncodeParts(sel, segs, i) ==
    IF i > Len(segs) THEN <<>>
    ELSE LET seg == segs[i]
             rest == EncodeParts(sel, segs, i + 1)
         IN IF seg.type = "diverging" /\ seg.id \in DOMAIN sel
            THEN <<EncodeToken(sel[seg.id], seg.order)>> \o rest
            ELSE rest

encodeSelectionsToUrl(sel, segs) == Join(EncodeParts(sel, segs, 1))

\* part.match(/^([gt])(\d)$/): a single digit only
MatchTokenOneDigit(part) ==
    /\ Len(part) = 2
    /\ part[1] \in {"g", "t"}
    /\ IsDigit(part[2])

\* part.match(/^([gt])(\d+)$/)
MatchToken(part) ==
    /\ Len(part) >= 2
    /\ part[1] \in {"g", "t"}
    /\ \A i \in 2..Len(part) : IsDigit(part[i])

\* segmentsByOrder.get(order): the last segment of the list with that order
SegmentByOrder(segs, order) ==
    LET idx == { i \in 1..Len(segs) : segs[i].order = order }
    IN IF idx = {} THEN Null ELSE Some(segs[SetMax(idx)])

AcceptsAnySegment(found) == found # Null

\* segment && segment.type === "diverging"
AcceptsSegment(found) == found # Null /\ found[1].type = "diverging"

RECURSIVE DecodeLoop(_, _, _, _)
DecodeLoop(parts, segs, i, sel) ==
    IF i > Len(parts) THEN sel
    ELSE LET part == parts[i]
         IN IF MatchToken(part)
            THEN LET choice == IF part[1] = "g" THEN "gravel" ELSE "tarmac"
                     order == parseInt(Tail(part))
                     found == SegmentByOrder(segs, order)
                 IN IF AcceptsSegment(found)
                    THEN DecodeLoop(parts, segs, i + 1,
                                    MapSet(sel, found[1].id, choice))
                    ELSE DecodeLoop(parts, segs, i + 1, sel)
            ELSE DecodeLoop(parts, segs, i + 1, sel)

decodeSelectionsFromUrl(str, segs) ==
    IF Len(str) = 0 THEN EmptyMap
    ELSE DecodeLoop(Split(str), segs, 1, EmptyMap)

\* ------------------------------------------------------ Day-Split Partitioner
\* the Haversine distance of two coordinates [lng, lat, elevation]
CoordDistance(c1, c2) == Abs(c2[2] - c1[2]) + Abs(c2[1] - c1[1])

\* calculateCumulativeDistances(coordinates): starts from [0], so it has one
\* entry even when there is no coordinate
RECURSIVE CumulativeLoop(_, _, _)
CumulativeLoop(coordinates, i, distances) ==
    IF i > Len(coordinates) THEN distances
    ELSE CumulativeLoop(coordinates, i + 1,
            Append(distances,
                   distances[i - 1] + CoordDistance(coordinates[i - 1],
                                                    coordinates[i])))

calculateCumulativeDistances(coordinates) ==
    CumulativeLoop(coordinates, 2, <<0>>)

\* the binary search of percentageToCoordIndex; indices are 0-based as in the
\* code, and cumulativeDistances[mid] < targetDistance is compared after
\* multiplying both sides by 100
RECURSIVE SearchLoop(_, _, _, _, _)
SearchLoop(percentage, cumulativeDistances, totalDistance, left, right) ==
    IF ~(left < right) THEN left
    ELSE LET mid == (left + right) \div 2
         IN IF 100 * cumulativeDistances[mid + 1] < percentage * totalDistance
            THEN SearchLoop(percentage, cumulativeDistances, totalDistance,
                            mid + 1, right)
            ELSE SearchLoop(percentage, cumulativeDistances, totalDistance,
                            left, mid)

\* if (prevDiff < currDiff) return left - 1
PrevIndexCloserOrEqual(prevDiff, currDiff) == prevDiff <= currDiff

PrevIndexCloser(prevDiff, currDiff) == prevDiff < currDiff

\* percentageToCoordIndex(percentage, cumulativeDistances, totalDistance)
percentageToCoordIndex(percentage, cumulativeDistances, totalDistance) ==
    IF percentage <= 0 THEN 0
    ELSE IF percentage >= 100 THEN Len(cumulativeDistances) - 1
    ELSE LET left == SearchLoop(percentage, cumulativeDistances, totalDistance,
                                0, Len(cumulativeDistances) - 1)
             prevDiff == Abs(100 * cumulativeDistances[left]
                             - percentage * totalDistance)
             currDiff == Abs(100 * cumulativeDistances[left + 1]
                             - percentage * totalDistance)
         IN IF left > 0 /\ PrevIndexCloser(prevDiff, currDiff)
            THEN left - 1 ELSE left

\* calculateSegmentStats(coordinates, startIndex, endIndex) of the partitioner
RECURSIVE RangeStatsLoop(_, _, _, _)
RangeStatsLoop(coordinates, i, endIndex, acc) ==
    IF i > endIndex THEN acc
    ELSE LET c1 == coordinates[i]
             c2 == coordinates[i + 1]
             elevDiff == c2[3] - c1[3]
         IN RangeStatsLoop(coordinates, i + 1, endIndex,
                [distanceKm |-> acc.distanceKm + CoordDistance(c1, c2),
                 elevationGain |-> IF elevDiff > 0
                                   THEN acc.elevationGain + elevDiff
                                   ELSE acc.elevationGain,
                 elevationLoss |-> IF elevDiff > 0 THEN acc.elevationLoss
                                   ELSE acc.elevationLoss + Abs(elevDiff)])

calculateRangeStats(coordinates, startIndex, endIndex) ==
    RangeStatsLoop(coordinates, startIndex + 1, endIndex,
        [distanceKm |-> 0, elevationGain |-> 0, elevationLoss |-> 0])

\* breakpoints.sort((a, b) => a - b): ascending, in place
RECURSIVE InsertSorted(_, _)
InsertSorted(sorted, v) ==
    IF Len(sorted) = 0 THEN <<v>>
    ELSE IF v - Head(sorted) < 0 THEN <<v>> \o sorted
    ELSE <<Head(sorted)>> \o InsertSorted(Tail(sorted), v)

RECURSIVE SortAscending(_)
SortAscending(list) ==
    IF Len(list) = 0 THEN <<>>
    ELSE InsertSorted(SortAscending(SubSeq(list, 1, Len(list) - 1)),
                      list[Len(list)])

BoundariesOpen(sortedBreakpoints) == <<0>> \o sortedBreakpoints

\* [0, ...breakpoints.sort(...), 100]
Boundaries(sortedBreakpoints) == <<0>> \o sortedBreakpoints \o <<100>>

\* generateDaySplits(blendedRoute, breakpoints)
generateDaySplits(route, points) ==
    LET coordinates == route.coordinates
        totalDistance == route.distanceKm
        cumulativeDistances == calculateCumulativeDistances(coordinates)
        boundaries == Boundaries(SortAscending(points))
    IN [i \in 1..(Len(boundaries) - 1) |->
          LET startPercentage == boundaries[i]
              endPercentage == boundaries[i + 1]
              startCoordIndex == percentageToCoordIndex(startPercentage,
                                    cumulativeDistances, totalDistance)
              endCoordIndex == percentageToCoordIndex(endPercentage,
                                    cumulativeDistances, totalDistance)
              stats == calculateRangeStats(coordinates, startCoordIndex,
                                           endCoordIndex)
          IN [dayNumber |-> i,
              startPercentage |-> startPercentage,
              endPercentage |-> endPercentage,
              startCoordIndex |-> startCoordIndex,
              endCoordIndex |-> endCoordIndex,
              distanceKm |-> stats.distanceKm,
              elevationGain |-> stats.elevationGain,
              elevationLoss |-> stats.elevationLoss]]

\* getBreakpointCoordinates(blendedRoute, breakpoints); coordinates[coordIndex]
\* is undefined (Null here) when the route has no coordinate
getBreakpointCoordinates(route, points) ==
    LET coordinates == route.coordinates
        totalDistance == route.distanceKm
        cumulativeDistances == calculateCumulativeDistances(coordinates)
    IN [k \in 1..Len(points) |->
          LET coordIndex == percentageToCoordIndex(points[k],
                                cumulativeDistances, totalDistance)
          IN [percentage |-> points[k],
              coordIndex |-> coordIndex,
              coordinates |-> IF coordIndex < Len(coordinates)
                              THEN Some(coordinates[coordIndex + 1]) ELSE Null,
              cumulativeDistanceKm |-> cumulativeDistances[coordIndex + 1]]]

\* ------------------------------------- Elevation Profile Builder and queries
\* haversineDistance(lat1, lon1, lat2, lon2) of gpx.ts
haversineDistanceKm(lat1, lon1, lat2, lon2) ==
    Abs(lat2 - lat1) + Abs(lon2 - lon1)

\* const [lng, lat, elevation = 0] = coordinates[i]
PositionElevation(position) == IF Len(position) >= 3 THEN position[3] ELSE 0

\* the loop of extractElevationProfile: one point pushed per coordinate
RECURSIVE ProfileLoop(_, _, _, _)
ProfileLoop(coords, i, cumulativeDistance, acc) ==
    IF i > Len(coords) THEN acc
    ELSE LET lng == coords[i][1]
             lat == coords[i][2]
             elevation == PositionElevation(coords[i])
             segmentDistance ==
                 IF i > 1
                 THEN haversineDistanceKm(coords[i - 1][2], coords[i - 1][1],
                                          lat, lng)
                 ELSE 0
             grade ==
                 IF i > 1 /\ segmentDistance > 0
                 THEN [num |-> (elevation - PositionElevation(coords[i - 1]))
                                  * 100,
                       den |-> segmentDistance]
                 ELSE [num |-> 0, den |-> 1]
         IN ProfileLoop(coords, i + 1, cumulativeDistance + segmentDistance,
                Append(acc, [distance |-> cumulativeDistance + segmentDistance,
                             elevation |-> elevation,
                             lat |-> lat,
                             lng |-> lng,
                             grade |-> grade]))

\* the profile before smoothing
UnsmoothedProfile(coords) == ProfileLoop(coords, 1, 0, <<>>)

\* window.reduce((sum, p) => sum + (p.grade || 0), 0)
RECURSIVE SumGrades(_, _, _)
SumGrades(profile, first, last) ==
    IF first > last THEN [num |-> 0, den |-> 1]
    ELSE LET rest == SumGrades(profile, first + 1, last)
             g == profile[first].grade
         IN [num |-> g.num * rest.den + rest.num * g.den,
             den |-> g.den * rest.den]

\* a mutant of the spread: the elevation is averaged with its predecessor
SmoothedPointFlattened(profile, i, avgGrade) ==
    [profile[i] EXCEPT !.grade = avgGrade,
                       !.elevation = (profile[i].elevation
                                      + profile[IF i > 1 THEN i - 1 ELSE i]
                                            .elevation) \div 2]

\* { ...point, grade: avgGrade }
SmoothedPoint(profile, i, avgGrade) == [profile[i] EXCEPT !.grade = avgGrade]

\* smoothGrade(profile, windowSize); i is the 1-based position of the point
smoothGrade(profile, windowSize) ==
    [i \in 1..Len(profile) |->
        LET index == i - 1
            floorHalf == windowSize \div 2
            ceilHalf == (windowSize + 1) \div 2
            start == IF index - floorHalf > 0 THEN index - floorHalf ELSE 0
            end == IF Len(profile) < index + ceilHalf THEN Len(profile)
                   ELSE index + ceilHalf
            sum == SumGrades(profile, start + 1, end)
        IN SmoothedPoint(profile, i,
               [num |-> sum.num, den |-> sum.den * (end - start)])]

\* extractElevationProfile(coordinates)
extractElevationProfile(coords) ==
    smoothGrade(UnsmoothedProfile(coords), GRADE_WINDOW)

\* a mutant of the search comparison: a point at the target counts as below
BelowTargetOrAt(distance, targetDistance) == distance <= targetDistance

\* if (profile[mid].distance < targetDistance)
BelowTarget(distance, targetDistance) == distance < targetDistance

\* the binary search of findPointAtDistance, 0-based as in the code
RECURSIVE FindLoop(_, _, _, _)
FindLoop(profile, targetDistance, left, right) ==
    IF ~(left < right) THEN left
    ELSE LET mid == (left + right) \div 2
         IN IF BelowTarget(profile[mid + 1].distance, targetDistance)
            THEN FindLoop(profile, targetDistance, mid + 1, right)
            ELSE FindLoop(profile, targetDistance, left, mid)

\* a mutant of the final comparison: the previous point is never preferred
PrevCloserNever(prevDiff, currDiff) == FALSE

\* if (prevDiff < currDiff) return profile[left - 1]
PrevCloser(prevDiff, currDiff) == prevDiff < currDiff

\* findPointAtDistance(profile, targetDistance): null or a reference to the
\* point of the profile that is returned
findPointAtDistance(profile, targetDistance) ==
    IF Len(profile) = 0 THEN Null
    ELSE LET left == FindLoop(profile, targetDistance, 0, Len(profile) - 1)
         IN IF left > 0
               /\ PrevCloser(Abs(profile[left].distance - targetDistance),
                             Abs(profile[left + 1].distance - targetDistance))
            THEN Some(left - 1)
            ELSE Some(left)

\* for (let i = 0; i < profile.length; i += step) downsampled.push(profile[i])
RECURSIVE StrideLoop(_, _, _, _)
StrideLoop(length, step, i, acc) ==
    IF ~(i < length) THEN acc
    ELSE StrideLoop(length, step, i + step, Append(acc, i))

\* a mutant: the last point is not forced in
WithLastPointSkipped(acc, length) == acc

\* if (downsampled[downsampled.length - 1] !== profile[profile.length - 1])
\*     downsampled.push(profile[profile.length - 1])
WithLastPoint(acc, length) ==
    IF acc[Len(acc)] # length - 1 THEN Append(acc, length - 1) ELSE acc

\* downsampleProfile(profile, maxPoints): the references to the points that
\* are returned, in order; the input itself when it is short enough
downsampleProfile(profile, maxPoints) ==
    IF Len(profile) <= maxPoints THEN [i \in 1..Len(profile) |-> i - 1]
    ELSE LET step == (Len(profile) + maxPoints - 1) \div maxPoints
         IN WithLastPoint(StrideLoop(Len(profile), step, 0, <<>>),
                          Len(profile))

\* if (distance < minDistance) of findClosestPoint
IsCloserOrEqual(distance, minDistance) == distance <= minDistance

IsCloser(distance, minDistance) == distance < minDistance

\* for (const point of profile): closest holds a reference to the point kept
RECURSIVE ClosestLoop(_, _, _, _, _)
ClosestLoop(profile, lat, lng, i, best) ==
    IF i > Len(profile) THEN best.closestPoint
    ELSE LET distance == haversineDistanceKm(lat, lng, profile[i].lat,
                                             profile[i].lng)
         IN IF IsCloser(distance, best.minDistance)
            THEN ClosestLoop(profile, lat, lng, i + 1,
                             [closestPoint |-> i - 1, minDistance |-> distance])
            ELSE ClosestLoop(profile, lat, lng, i + 1, best)

\* findClosestPoint(profile, lat, lng): null or a reference to the point of
\* the profile that is returned
findClosestPoint(profile, lat, lng) ==
    IF Len(profile) = 0 THEN Null
    ELSE Some(ClosestLoop(profile, lat, lng, 1,
                          [closestPoint |-> 0, minDistance |-> Infinity]))

\* ------------------------------------------------------------ the session
\* daysParam.split(",")
RECURSIVE SplitByFrom(_, _, _, _, _)
SplitByFrom(str, separator, i, current, parts) ==
    IF i > Len(str) THEN Append(parts, current)
    ELSE IF str[i] = separator
         THEN SplitByFrom(str, separator, i + 1, <<>>, Append(parts, current))
    ELSE SplitByFrom(str, separator, i + 1, Append(current, str[i]), parts)

SplitBy(str, separator) == SplitByFrom(str, separator, 1, <<>>, <<>>)

\* parts.join(","), on an array of strings
RECURSIVE JoinBy(_, _)
JoinBy(parts, separator) ==
    IF Len(parts) = 0 THEN <<>>
    ELSE IF Len(parts) = 1 THEN parts[1]
    ELSE parts[1] \o <<separator>> \o JoinBy(Tail(parts), separator)

\* the end of the run of digits of str that starts at position i
RECURSIVE DigitRunEnd(_, _)
DigitRunEnd(str, i) ==
    IF i <= Len(str) /\ IsDigit(str[i]) THEN DigitRunEnd(str, i + 1) ELSE i

RECURSIVE Power10(_)
Power10(k) == IF k = 0 THEN 1 ELSE 10 * Power10(k - 1)

\* parseFloat(s) of a string of digits, ".", "-" and letters: the longest
\* prefix that is a decimal literal, NaN (the missing value) when there is
\* none
parseFloat(str) ==
    LET negative == Len(str) >= 1 /\ str[1] = "-"
        intStart == IF negative THEN 2 ELSE 1
        intEnd == DigitRunEnd(str, intStart)
        hasPoint == intEnd <= Len(str) /\ str[intEnd] = "."
        fracStart == intEnd + 1
        fracEnd == IF hasPoint THEN DigitRunEnd(str, fracStart) ELSE fracStart
        intDigits == SubSeq(str, intStart, intEnd - 1)
        fracDigits == IF hasPoint THEN SubSeq(str, fracStart, fracEnd - 1)
                      ELSE <<>>
        magnitude == parseInt(intDigits) * Power10(Len(fracDigits))
                        + parseInt(fracDigits)
    IN IF Len(intDigits) = 0 /\ Len(fracDigits) = 0 THEN Null
       ELSE Some([num |-> IF negative THEN 0 - magnitude ELSE magnitude,
                  den |-> Power10(Len(fracDigits))])

\* a mutant of the filter: the bounds 0 and 100 themselves are accepted
IsLoadableClosed(n) ==
    n # Null /\ n[1].num >= 0 /\ n[1].num <= 100 * n[1].den

\* !isNaN(n) && n > 0 && n < 100
IsLoadable(n) == n # Null /\ n[1].num > 0 /\ n[1].num < 100 * n[1].den

\* daysParam.split(",").map((s) => parseFloat(s)).filter(...)
RECURSIVE LoadLoop(_, _, _)
LoadLoop(parts, i, acc) ==
    IF i > Len(parts) THEN acc
    ELSE LET n == parseFloat(parts[i])
         IN LoadLoop(parts, i + 1, IF IsLoadable(n) THEN Append(acc, n[1])
                                   ELSE acc)

loadedBreakpoints(str) == LoadLoop(SplitBy(str, ","), 1, <<>>)

\* Math.round(b): the nearest integer, halves upwards
MathRound(b) == (2 * b.num + b.den) \div (2 * b.den)

\* breakpoints.map((b) => Math.round(b)).join(",")
daysEncoded(points) ==
    JoinBy([k \in 1..Len(points) |-> NumberToString(MathRound(points[k]))],
           ",")

\* breakpoints.sort((a, b) => a - b) on the session's breakpoints
RECURSIVE InsertFraction(_, _)
InsertFraction(sorted, v) ==
    IF Len(sorted) = 0 THEN <<v>>
    ELSE IF v.num * Head(sorted).den < Head(sorted).num * v.den
         THEN <<v>> \o sorted
    ELSE <<Head(sorted)>> \o InsertFraction(Tail(sorted), v)

RECURSIVE SortFractions(_)
SortFractions(list) ==
    IF Len(list) = 0 THEN <<>>
    ELSE InsertFraction(SortFractions(SubSeq(list, 1, Len(list) - 1)),
                        list[Len(list)])

\* the render after a commit: the daySplits memo hands the breakpoints state
\* to generateDaySplits, which sorts it, when there is a blended route and a
\* breakpoint
RenderedBreakpoints(route, points) ==
    IF route = Null \/ Len(points) = 0 THEN points ELSE SortFractions(points)

\* a reset effect that runs on mount only
ResetEffectOnMount(deps, st) ==
    IF "mount" \notin deps THEN st
    ELSE [st EXCEPT !.numberOfDays = 1, !.breakpoints = <<>>,
                    !.changed = @ \cup {"breakpoints"}]

\* the reset effect (deps [savedSelections])
ResetEffect(deps, st) ==
    IF deps \cap {"mount", "savedSelections"} = {} THEN st
    ELSE [st EXCEPT !.numberOfDays = 1, !.breakpoints = <<>>,
                    !.changed = @ \cup {"breakpoints"}]

\* the load effect (deps [segments]), reading the link
LoadEffect(deps, st, segs, routeParam, daysParameter) ==
    IF "mount" \notin deps \/ Len(segs) = 0 \/ Len(routeParam) = 0 THEN st
    ELSE LET dec == decodeSelectionsFromUrl(routeParam, segs)
             loaded == loadedBreakpoints(daysParameter)
             withSelections ==
                 [st EXCEPT !.selections = dec, !.savedSelections = dec,
                            !.changed = @ \cup {"savedSelections"}]
         IN IF dec = EmptyMap THEN st
            ELSE IF Len(daysParameter) = 0 \/ Len(loaded) = 0
                 THEN withSelections
            ELSE [withSelections EXCEPT
                     !.breakpoints = loaded,
                     !.numberOfDays = Len(loaded) + 1,
                     !.changed = @ \cup {"breakpoints"}]

\* the link effect (deps [savedSelections, breakpoints, segments]): the
\* parameters it leaves in the link, from the state that was rendered
LinkEffect(deps, saved, points, segs, link) ==
    IF deps = {} THEN link
    ELSE IF saved = EmptyMap THEN [route |-> <<>>, days |-> <<>>]
    ELSE LET encoded == encodeSelectionsToUrl(saved, segs)
         IN [route |-> IF Len(encoded) > 0 THEN encoded ELSE link.route,
             days |-> IF Len(points) > 0 THEN daysEncoded(points) ELSE <<>>]

\* the numbers of the session, exactly
Fraction(n) == [num |-> n, den |-> 1]

FractionLess(a, b) == a.num * b.den < b.num * a.den

\* Math.max(a, b) and Math.min(a, b)
FractionMax(a, b) == IF FractionLess(a, b) THEN b ELSE a

FractionMin(a, b) == IF FractionLess(b, a) THEN b ELSE a

\* a + n for a whole number n
FractionPlus(a, n) == [num |-> a.num + n * a.den, den |-> a.den]

\* percentageToCoordIndex at a percentage that is not a whole number: the
\* comparisons of percentageToCoordIndex with both sides multiplied by the
\* denominator of the percentage
percentageToCoordIndexAt(percentage, cumulativeDistances, totalDistance) ==
    IF percentage.num <= 0 THEN 0
    ELSE IF percentage.num >= 100 * percentage.den
         THEN Len(cumulativeDistances) - 1
    ELSE LET scaled == [i \in 1..Len(cumulativeDistances) |->
                           percentage.den * cumulativeDistances[i]]
             left == SearchLoop(percentage.num, scaled, totalDistance,
                                0, Len(scaled) - 1)
             prevDiff == Abs(100 * scaled[left]
                             - percentage.num * totalDistance)
             currDiff == Abs(100 * scaled[left + 1]
                             - percentage.num * totalDistance)
         IN IF left > 0 /\ PrevIndexCloser(prevDiff, currDiff)
            THEN left - 1 ELSE left

\* generateDaySplits(blendedRoute, breakpoints) on the session's breakpoints
generateDaySplitsAt(route, points) ==
    LET coordinates == route.coordinates
        totalDistance == route.distanceKm
        cumulativeDistances == calculateCumulativeDistances(coordinates)
        boundaries == <<Fraction(0)>> \o SortFractions(points)
                         \o <<Fraction(100)>>
    IN [i \in 1..(Len(boundaries) - 1) |->
          LET startPercentage == boundaries[i]
              endPercentage == boundaries[i + 1]
              startCoordIndex == percentageToCoordIndexAt(startPercentage,
                                    cumulativeDistances, totalDistance)
              endCoordIndex == percentageToCoordIndexAt(endPercentage,
                                    cumulativeDistances, totalDistance)
              stats == calculateRangeStats(coordinates, startCoordIndex,
                                           endCoordIndex)
          IN [dayNumber |-> i,
              startPercentage |-> startPercentage,
              endPercentage |-> endPercentage,
              startCoordIndex |-> startCoordIndex,
              endCoordIndex |-> endCoordIndex,
              distanceKm |-> stats.distanceKm,
              elevationGain |-> stats.elevationGain,
              elevationLoss |-> stats.elevationLoss]]

\* getBreakpointCoordinates(blendedRoute, breakpoints) on the session's
\* breakpoints
getBreakpointCoordinatesAt(route, points) ==
    LET coordinates == route.coordinates
        totalDistance == route.distanceKm
        cumulativeDistances == calculateCumulativeDistances(coordinates)
    IN [k \in 1..Len(points) |->
          LET coordIndex == percentageToCoordIndexAt(points[k],
                                cumulativeDistances, totalDistance)
          IN [percentage |-> points[k],
              coordIndex |-> coordIndex,
              coordinates |-> IF coordIndex < Len(coordinates)
                              THEN Some(coordinates[coordIndex + 1]) ELSE Null,
              cumulativeDistanceKm |-> cumulativeDistances[coordIndex + 1]]]

\* const daySplits = useMemo(...)
daySplitsMemo(route, points) ==
    IF route = Null \/ Len(points) = 0 THEN <<>>
    ELSE generateDaySplitsAt(route[1], points)

\* const breakpointCoordinates = useMemo(...), which runs after the daySplits
\* memo has sorted the breakpoints
breakpointCoordinatesMemo(route, points) ==
    IF route = Null \/ Len(points) = 0 THEN <<>>
    ELSE getBreakpointCoordinatesAt(route[1], points)

\* one breakpoint for each day, the last at 100
evenBreakpointsPerDay(days) ==
    [k \in 1..days |-> [num |-> k * 100, den |-> days]]

\* Array.from({ length: days - 1 }, (_, i) => ((i + 1) / days) * 100)
evenBreakpoints(days) ==
    [k \in 1..(days - 1) |-> [num |-> k * 100, den |-> days]]

\* getPercentage(clientX); position is the pointer's place along the track,
\* ((clientX - rect.left) / rect.width) * (max - min) + min
getPercentage(position, min, max) ==
    FractionMax(Fraction(min), FractionMin(Fraction(max), position))

\* Math.max(minValue, Math.min(maxValue, newValue))
ClampedNever(minValue, maxValue, newValue) == newValue

Clamped(minValue, maxValue, newValue) ==
    FractionMax(minValue, FractionMin(maxValue, newValue))

\* handleMove(clientX) of the slider while the handle draggingIndex (0-based)
\* is dragged: the values handed to onChange
handleMove(values, draggingIndex, position, min, max, minGap) ==
    LET newValue == getPercentage(position, min, max)
        minValue == IF draggingIndex = 0 THEN Fraction(min + minGap)
                    ELSE FractionPlus(values[draggingIndex], minGap)
        maxValue == IF draggingIndex = Len(values) - 1
                    THEN Fraction(max - minGap)
                    ELSE FractionPlus(values[draggingIndex + 2], 0 - minGap)
    IN [values EXCEPT ![draggingIndex + 1] =
                          Clamped(minValue, maxValue, newValue)]

\* ------------------------------------------------- inputs of the assembler
SegTypes == {"shared", "diverging"}
RouteChoices == {"gravel", "tarmac"}

\* the k-th point of an option of the segment with the given order
OptionPoint(order, lat, k) ==
    [lng |-> 1000 * order + 100 * k, lat |-> lat, elevation |-> 10 * k * (order - 2)]

OptionStats(order, lat, n) ==
    calculateSegmentStats(addDistances([k \in 1..n |-> OptionPoint(order, lat, k)]))

MkSegment(i, type, g, t) ==
    [id |-> SegId(SegOrder(i)), type |-> type, order |-> SegOrder(i),
     gravel |-> OptionStats(SegOrder(i), 0, g),
     tarmac |-> OptionStats(SegOrder(i), 200, t)]

\* Segment lists as the engine numbers them.  An option may have no coordinate
\* (calculateSegmentStats builds such a SegmentStats for an empty section);
\* the two options of a segment differ in their number of coordinates.
SegmentLists ==
    UNION { { [i \in 1..n |->
                 MkSegment(i - 1, ty[i], g[i], (g[i] + 1) % (MaxCoords + 1))] :
                ty \in [1..n -> SegTypes],
                g \in [1..n -> 0..MaxCoords] } : n \in 0..MaxSegs }

SegmentIds(segs) == { segs[i].id : i \in 1..Len(segs) }

DivergingIds(segs) ==
    { segs[i].id : i \in { j \in 1..Len(segs) : segs[j].type = "diverging" } }

SelectionMaps(ids) == UNION { [d -> RouteChoices] : d \in SUBSET ids }

\* --------------------------------------------------- inputs of the engine
StepSet == {0, 300, 600}        \* metres between consecutive track points
LatSet == {0, 200}              \* lateral offset of a secondary track point

\* the primary track runs along lat = 0; the secondary track has a point
\* abreast of every primary point, on the track or off it
GravelTrack(n, step) ==
    LET x[k \in 1..n] == IF k = 1 THEN 0 ELSE x[k - 1] + step[k - 1]
    IN [k \in 1..n |-> [lng |-> x[k], lat |-> 0, elevation |-> 100 + 10 * k]]

TarmacTrack(gravel, off) ==
    [k \in 1..Len(gravel) |->
        [lng |-> gravel[k].lng, lat |-> off[k], elevation |-> 100 + 5 * k]]

\* at most one pair of consecutive points of the primary track coincides
GravelTracks ==
    UNION { { GravelTrack(n, step) :
                step \in { st \in [1..(n - 1) -> StepSet] :
                             \A j, k \in 1..(n - 1) :
                                 (st[j] = 0 /\ st[k] = 0) => j = k } } :
            n \in 0..MaxPts }

TarmacTracks(gravel) ==
    { TarmacTrack(gravel, off) : off \in [1..Len(gravel) -> LatSet] }
        \cup { <<>>, <<[lng |-> 0, lat |-> 0, elevation |-> 100]>> }

ProfileIdle ==
    /\ trackCoords = <<>> /\ elevationProfile = <<>>
    /\ queryDistance = 0 /\ pointAtDistance = <<>>
    /\ maxChartPoints = 0 /\ chartPoints = <<>>

NearIdle ==
    /\ queryCoord = <<>> /\ closestPoint = <<>> /\ nearestPoint = <<>>

SearchIdle ==
    /\ searchPercentage = 0 /\ searchTotal = 0 /\ searchIndex = 0

SessionIdle ==
    /\ isBuilding = FALSE /\ savedSelections = EmptyMap
    /\ numberOfDays = 1 /\ daysParam = <<>> /\ effects = {}

DaysIdle ==
    /\ breakpoints = <<>> /\ daySplits = <<>> /\ breakpointCoordinates = <<>>

EngineIdle ==
    /\ gravelCoords = <<>> /\ tarmacCoords = <<>>
    /\ gravelRoute = <<>> /\ tarmacRoute = <<>>
    /\ sampledGravel = <<>> /\ sampledTarmac = <<>>
    /\ overlapAnalysis = <<>> /\ transitions = <<>>
    /\ mergedTransitions = <<>>

InitSeg ==
    /\ pc = "parsed"
    /\ gravelCoords \in GravelTracks
    /\ tarmacCoords \in TarmacTracks(gravelCoords)
    /\ gravelRoute = <<>> /\ tarmacRoute = <<>>
    /\ sampledGravel = <<>> /\ sampledTarmac = <<>>
    /\ overlapAnalysis = <<>> /\ transitions = <<>>
    /\ mergedTransitions = <<>>
    /\ segments = <<>>
    /\ selections = EmptyMap /\ blendedRoute = Null
    /\ param = <<>> /\ decoded = EmptyMap
    /\ DaysIdle
    /\ ProfileIdle
    /\ SessionIdle
    /\ NearIdle
    /\ SearchIdle

\* addDistances of both tracks; the log of the route lengths reads the last
\* point of each route and raises when a route is empty
AddDistances ==
    /\ pc = "parsed"
    /\ gravelRoute' = addDistances(gravelCoords)
    /\ tarmacRoute' = addDistances(tarmacCoords)
    /\ pc' = IF Len(gravelCoords) = 0 \/ Len(tarmacCoords) = 0
             THEN "raised" ELSE "measured"
    /\ UNCHANGED <<dayVars, profileVars, sessionVars, nearVars, searchVars>>
    /\ UNCHANGED <<segments, codecVars, gravelCoords, tarmacCoords,
                   sampledGravel, sampledTarmac, overlapAnalysis,
                   transitions, mergedTransitions>>

\* sampleRoute of both routes
SampleRoutes ==
    /\ pc = "measured"
    /\ sampledGravel' = sampleRoute(gravelRoute, SAMPLE_INTERVAL_METERS)
    /\ sampledTarmac' = sampleRoute(tarmacRoute, SAMPLE_INTERVAL_METERS)
    /\ pc' = "sampled"
    /\ UNCHANGED <<dayVars, profileVars, sessionVars, nearVars, searchVars>>
    /\ UNCHANGED <<segments, codecVars, gravelCoords, tarmacCoords,
                   gravelRoute, tarmacRoute, overlapAnalysis,
                   transitions, mergedTransitions>>

\* analyzeOverlap with gravel as primary, then the scan for transitions,
\* which reads overlapAnalysis[0] and raises when there is none
AnalyzeOverlap ==
    /\ pc = "sampled"
    /\ overlapAnalysis' = analyzeOverlap(sampledGravel, sampledTarmac,
                                         OVERLAP_THRESHOLD_METERS)
    /\ IF Len(overlapAnalysis') = 0
       THEN pc' = "raised" /\ UNCHANGED transitions
       ELSE /\ pc' = "scanned"
            /\ transitions' = FindTransitions(overlapAnalysis', sampledGravel)
    /\ UNCHANGED <<dayVars, profileVars, sessionVars, nearVars, searchVars>>
    /\ UNCHANGED <<segments, codecVars, gravelCoords, tarmacCoords,
                   gravelRoute, tarmacRoute, sampledGravel, sampledTarmac,
                   mergedTransitions>>

\* mergeSmallSegments(transitions, MIN_SEGMENT_LENGTH_METERS)
MergeSmallSegments ==
    /\ pc = "scanned"
    /\ mergedTransitions' = mergeSmallSegments(transitions,
                                               MIN_SEGMENT_LENGTH_METERS)
    /\ pc' = "merged"
    /\ UNCHANGED <<dayVars, profileVars, sessionVars, nearVars, searchVars>>
    /\ UNCHANGED <<segments, codecVars, gravelCoords, tarmacCoords,
                   gravelRoute, tarmacRoute, sampledGravel, sampledTarmac,
                   overlapAnalysis, transitions>>

\* the segments are built and written out
BuildSegments ==
    /\ pc = "merged"
    /\ LET built == BuildLoop(mergedTransitions, gravelRoute, tarmacRoute,
                              0, <<>>)
       IN IF built.raised
          THEN pc' = "raised" /\ UNCHANGED segments
          ELSE pc' = "done" /\ segments' = built.segments
    /\ UNCHANGED <<codecVars, engineVars, dayVars,
                   profileVars, sessionVars, nearVars, searchVars>>

NextSeg ==
    \/ AddDistances
    \/ SampleRoutes
    \/ AnalyzeOverlap
    \/ MergeSmallSegments
    \/ BuildSegments

SpecSeg == InitSeg /\ [][NextSeg]_vars

\* the app with the written segments: gravel chosen for every diverging
\* segment, then buildBlendedRoute(segments, selections)
BlendPrimary ==
    /\ pc = "done"
    /\ selections' = [id \in DivergingIds(segments) |-> "gravel"]
    /\ blendedRoute' = buildBlendedRoute(segments, selections')
    /\ pc' = "spliced"
    /\ UNCHANGED <<segments, param, decoded, engineVars, dayVars,
                   profileVars, sessionVars, nearVars, searchVars>>

NextSplice == NextSeg \/ BlendPrimary

SpecSplice == InitSeg /\ [][NextSplice]_vars

InitBlend ==
    /\ pc = "assemble"
    /\ segments \in SegmentLists
    /\ selections \in SelectionMaps(SegmentIds(segments))
    /\ blendedRoute = Null
    /\ param = <<>>
    /\ decoded = EmptyMap
    /\ EngineIdle
    /\ DaysIdle
    /\ ProfileIdle
    /\ SessionIdle
    /\ NearIdle
    /\ SearchIdle

\* blendedRoute = buildBlendedRoute(segments, savedSelections)
BuildBlendedRoute ==
    /\ pc = "assemble"
    /\ blendedRoute' = buildBlendedRoute(segments, selections)
    /\ pc' = "assembled"
    /\ UNCHANGED <<segments, selections, param, decoded, engineVars, dayVars,
                   profileVars, sessionVars, nearVars, searchVars>>

NextBlend == BuildBlendedRoute

SpecBlend == InitBlend /\ [][NextBlend]_vars

\* --------------------------------------------------- inputs of the codec
\* the engine's lists alternate between shared and diverging
AlternatingLists ==
    { [i \in 1..n |-> MkSegment(i - 1,
                        IF (i % 2 = 1) = (first = "shared") THEN "shared"
                        ELSE "diverging", 1, 2)] :
        n \in 0..MaxUrlSegs, first \in SegTypes }

TypeLists ==
    UNION { { [i \in 1..n |-> MkSegment(i - 1, ty[i], 1, 2)] :
                ty \in [1..n -> SegTypes] } : n \in 0..MaxSegs }

UrlSegmentLists == TypeLists \cup AlternatingLists

\* lists a link is decoded against: the short ones and the longest ones
LinkSegmentLists ==
    TypeLists \cup { l \in AlternatingLists : Len(l) = MaxUrlSegs }

\* pieces of a link parameter: well-formed, ill-formed, out of range
LinkTokens ==
    { <<>>, <<"g", "1">>, <<"t", "1">>, <<"t", "2">>, <<"g", "0", "2">>,
      <<"g", "1", "0">>, <<"x", "1">>, <<"g">>, <<"g", "1", "x">> }

LinkParams ==
    UNION { { Join(ps) : ps \in [1..n -> LinkTokens] } : n \in 0..MaxTokens }

InitUrl ==
    /\ \/ /\ pc = "encode"
          /\ segments \in UrlSegmentLists
          /\ selections \in SelectionMaps(DivergingIds(segments))
          /\ param = <<>>
       \/ /\ pc = "link"
          /\ segments \in LinkSegmentLists
          /\ selections = EmptyMap
          /\ param \in LinkParams
    /\ decoded = EmptyMap
    /\ blendedRoute = Null
    /\ EngineIdle
    /\ DaysIdle
    /\ ProfileIdle
    /\ SessionIdle
    /\ NearIdle
    /\ SearchIdle

\* params.set("route", encodeSelectionsToUrl(savedSelections, segments))
EncodeSelections ==
    /\ pc = "encode"
    /\ param' = encodeSelectionsToUrl(selections, segments)
    /\ pc' = "encoded"
    /\ UNCHANGED <<segments, selections, blendedRoute, decoded, engineVars, dayVars,
                   profileVars, sessionVars, nearVars, searchVars>>

\* decoded = decodeSelectionsFromUrl(routeParam, segments)
DecodeSelections ==
    /\ pc \in {"encoded", "link"}
    /\ decoded' = decodeSelectionsFromUrl(param, segments)
    /\ pc' = IF pc = "encoded" THEN "roundtrip" ELSE "loaded"
    /\ UNCHANGED <<segments, selections, blendedRoute, param, engineVars, dayVars,
                   profileVars, sessionVars, nearVars, searchVars>>

NextUrl == EncodeSelections \/ DecodeSelections

SpecUrl == InitUrl /\ [][NextUrl]_vars

\* ----------------------------------------------- inputs of the partitioner
RouteStepSet == {0, 1, 3}       \* distance between consecutive coordinates
SeamErrorSet == {-1, 0, 1}      \* summed segment distances minus path length
PercentSet == {25, 50, 75}      \* breakpoint percentages

RouteCoordinates(n, step) ==
    LET x[k \in 1..n] == IF k = 1 THEN 0 ELSE x[k - 1] + step[k - 1]
    IN [k \in 1..n |-> <<x[k], 0, 100 + 10 * (k % 3)>>]

\* blended routes: distanceKm is the sum of the segments' distances, which
\* differs from the length of the spliced path by the error at the seams
SplicedRoutes ==
    UNION { { LET coordinates == RouteCoordinates(n, step)
                  stats == calculateRangeStats(coordinates, 0, n - 1)
              IN [coordinates |-> coordinates,
                  distanceKm |-> stats.distanceKm + err,
                  elevationGain |-> stats.elevationGain,
                  elevationLoss |-> stats.elevationLoss,
                  selections |-> EmptyMap] :
                step \in [1..(n - 1) -> RouteStepSet],
                err \in { e \in SeamErrorSet : n >= 2 \/ e = 0 } } :
            n \in 0..MaxRoutePts }

BlendedRoutes == { r \in SplicedRoutes : r.distanceKm >= 0 }

EdgePercentSet == {-10, 0, 100, 120}    \* percentages outside (0, 100)

\* breakpoint lists in any order, and single percentages outside (0, 100)
BreakpointLists ==
    UNION { [1..n -> PercentSet] : n \in 0..MaxBreaks }
        \cup { <<p>> : p \in EdgePercentSet }

InitDays ==
    /\ pc = "route"
    /\ blendedRoute \in { Some(r) : r \in BlendedRoutes }
    /\ breakpoints \in BreakpointLists
    /\ daySplits = <<>>
    /\ breakpointCoordinates = <<>>
    /\ segments = <<>> /\ selections = EmptyMap
    /\ param = <<>> /\ decoded = EmptyMap
    /\ EngineIdle
    /\ ProfileIdle
    /\ SessionIdle
    /\ NearIdle
    /\ SearchIdle

\* daySplits = generateDaySplits(blendedRoute, breakpoints); the call sorts
\* the breakpoints array it is given
GenerateDaySplits ==
    /\ pc = "route"
    /\ daySplits' = generateDaySplits(blendedRoute[1], breakpoints)
    /\ breakpoints' = SortAscending(breakpoints)
    /\ pc' = "split"
    /\ UNCHANGED <<segments, codecVars, engineVars, profileVars,
                   sessionVars, nearVars, searchVars, breakpointCoordinates>>

\* breakpointCoordinates = getBreakpointCoordinates(blendedRoute, breakpoints)
GetBreakpointCoordinates ==
    /\ pc = "split"
    /\ breakpointCoordinates' = getBreakpointCoordinates(blendedRoute[1],
                                                         breakpoints)
    /\ pc' = "marked"
    /\ UNCHANGED <<segments, codecVars, engineVars, profileVars,
                   sessionVars, nearVars, searchVars, breakpoints, daySplits>>

NextDays == GenerateDaySplits \/ GetBreakpointCoordinates

SpecDays == InitDays /\ [][NextDays]_vars

\* -------------------------------------------------- inputs of the profile
ProfileStepSet == {0, 2, 3}     \* distance between consecutive positions

\* positions [lng, lat, elevation] or, without elevation, [lng, lat]
TrackPositions(n, step, withElevation) ==
    LET x[k \in 1..n] == IF k = 1 THEN 0 ELSE x[k - 1] + step[k - 1]
    IN [k \in 1..n |-> IF withElevation
                       THEN <<x[k], 0, 100 + 10 * ((k * k) % 3)>>
                       ELSE <<x[k], 0>>]

TrackPositionLists ==
    UNION { { TrackPositions(n, step, withElevation) :
                step \in [1..(n - 1) -> ProfileStepSet],
                withElevation \in BOOLEAN } :
            n \in 0..MaxProfilePts }

\* target distances: before the start, on and between the points, past the end
TargetDistances == (-1)..(SetMax(ProfileStepSet) * (MaxProfilePts - 1) + 1)

InitProfile ==
    /\ pc = "track"
    /\ trackCoords \in TrackPositionLists
    /\ elevationProfile = <<>>
    /\ queryDistance = 0 /\ pointAtDistance = <<>>
    /\ maxChartPoints = 0 /\ chartPoints = <<>>
    /\ segments = <<>> /\ selections = EmptyMap /\ blendedRoute = Null
    /\ param = <<>> /\ decoded = EmptyMap
    /\ EngineIdle
    /\ DaysIdle
    /\ SessionIdle
    /\ NearIdle
    /\ SearchIdle

\* const elevationProfile = extractElevationProfile(coordinates)
ExtractElevationProfile ==
    /\ pc = "track"
    /\ elevationProfile' = extractElevationProfile(trackCoords)
    /\ pc' = "profiled"
    /\ UNCHANGED <<segments, codecVars, engineVars, dayVars, sessionVars, nearVars, searchVars,
                   trackCoords,
                   queryDistance, pointAtDistance, maxChartPoints,
                   chartPoints>>

\* findPointAtDistance(elevationProfile, targetDistance)
FindPointAtDistance ==
    /\ pc = "profiled"
    /\ \E targetDistance \in TargetDistances :
          /\ queryDistance' = targetDistance
          /\ pointAtDistance' = findPointAtDistance(elevationProfile,
                                                    targetDistance)
    /\ pc' = "found"
    /\ UNCHANGED <<segments, codecVars, engineVars, dayVars, sessionVars, nearVars, searchVars,
                   trackCoords,
                   elevationProfile, maxChartPoints, chartPoints>>

\* downsampleProfile(elevationProfile, maxPoints)
DownsampleProfile ==
    /\ pc = "profiled"
    /\ \E maxPoints \in 1..MaxCap :
          /\ maxChartPoints' = maxPoints
          /\ chartPoints' = downsampleProfile(elevationProfile, maxPoints)
    /\ pc' = "charted"
    /\ UNCHANGED <<segments, codecVars, engineVars, dayVars, sessionVars, nearVars, searchVars,
                   trackCoords,
                   elevationProfile, queryDistance, pointAtDistance>>

NextProfile ==
    ExtractElevationProfile \/ FindPointAtDistance \/ DownsampleProfile

SpecProfile == InitProfile /\ [][NextProfile]_vars

\* ------------------------------------------ inputs of the nearest lookups
NearLngSet == {0, 1, 2}
NearLatSet == {0, 1}

\* tracks that wander over a small grid, so that a later point can be as near
\* to the query as an earlier one; the elevation tells the points apart
NearTracks ==
    UNION { [1..n -> { <<lng, lat>> : lng \in NearLngSet, lat \in NearLatSet }] :
            n \in 0..MaxNearPts }

NearPositions(track) ==
    [k \in 1..Len(track) |-> <<track[k][1], track[k][2], 100 + k>>]

NearCoordinates(track) ==
    [k \in 1..Len(track) |->
        [lng |-> track[k][1], lat |-> track[k][2], elevation |-> 100 + k]]

NearQueries ==
    { [lng |-> lng, lat |-> lat] : lng \in NearLngSet \cup {3},
                                   lat \in NearLatSet }

InitNearest ==
    /\ pc = "lookup"
    /\ \E track \in NearTracks :
          /\ trackCoords = NearPositions(track)
          /\ elevationProfile = extractElevationProfile(NearPositions(track))
          /\ gravelCoords = NearCoordinates(track)
          /\ gravelRoute = addDistances(NearCoordinates(track))
    /\ tarmacCoords = <<>> /\ tarmacRoute = <<>>
    /\ sampledGravel = <<>> /\ sampledTarmac = <<>>
    /\ overlapAnalysis = <<>> /\ transitions = <<>>
    /\ mergedTransitions = <<>>
    /\ queryDistance = 0 /\ pointAtDistance = <<>>
    /\ maxChartPoints = 0 /\ chartPoints = <<>>
    /\ segments = <<>> /\ selections = EmptyMap /\ blendedRoute = Null
    /\ param = <<>> /\ decoded = EmptyMap
    /\ DaysIdle
    /\ SessionIdle
    /\ NearIdle
    /\ SearchIdle

\* findClosestPoint(elevationProfile, lat, lng)
FindClosestPoint ==
    /\ pc = "lookup"
    /\ \E query \in NearQueries :
          /\ queryCoord' = query
          /\ closestPoint' = findClosestPoint(elevationProfile, query.lat,
                                              query.lng)
    /\ pc' = "closest"
    /\ UNCHANGED <<segments, codecVars, engineVars, dayVars, profileVars,
                   sessionVars, searchVars, nearestPoint>>

\* findNearestPoint(point, route)
FindNearestPoint ==
    /\ pc = "lookup"
    /\ \E query \in NearQueries :
          /\ queryCoord' = query
          /\ nearestPoint' = findNearestPoint(query, gravelRoute)
    /\ pc' = "nearest"
    /\ UNCHANGED <<segments, codecVars, engineVars, dayVars, profileVars,
                   sessionVars, searchVars, closestPoint>>

NextNearest == FindClosestPoint \/ FindNearestPoint

SpecNearest == InitNearest /\ [][NextNearest]_vars

\* ---------------------------------------- inputs of the two binary searches
SearchStepSet == {0, 4, 8}      \* distance between consecutive positions

SearchTrackLists ==
    UNION { { TrackPositions(n, step, withElevation) :
                step \in [1..(n - 1) -> SearchStepSet],
                withElevation \in BOOLEAN } :
            n \in 0..MaxProfilePts }

\* the route's distanceKm: the sum of the track's distances, or that sum with
\* the error of a seam of the splice
SearchTotals(coords) ==
    LET distances == calculateCumulativeDistances(coords)
    IN { distances[Len(distances)] + e : e \in {-4, 0, 4} } \ {-4}

\* 0 < p < 100 with p / 100 * total a whole number for every total
SearchPercentSet == PercentSet

InitSearch ==
    /\ pc = "route"
    /\ \E coords \in SearchTrackLists :
          /\ trackCoords = coords
          /\ elevationProfile = extractElevationProfile(coords)
    /\ queryDistance = 0 /\ pointAtDistance = <<>>
    /\ maxChartPoints = 0 /\ chartPoints = <<>>
    /\ segments = <<>> /\ selections = EmptyMap /\ blendedRoute = Null
    /\ param = <<>> /\ decoded = EmptyMap
    /\ EngineIdle
    /\ DaysIdle
    /\ SessionIdle
    /\ NearIdle
    /\ SearchIdle

\* percentageToCoordIndex(percentage, cumulativeDistances, totalDistance) as
\* generateDaySplits calls it
PercentageToCoordIndex ==
    /\ pc = "route"
    /\ \E percentage \in SearchPercentSet,
          totalDistance \in SearchTotals(trackCoords) :
          /\ searchPercentage' = percentage
          /\ searchTotal' = totalDistance
          /\ searchIndex' = percentageToCoordIndex(percentage,
                               calculateCumulativeDistances(trackCoords),
                               totalDistance)
    /\ pc' = "indexed"
    /\ UNCHANGED <<segments, codecVars, engineVars, dayVars, profileVars,
                   sessionVars, nearVars>>

\* findPointAtDistance(profile, (percentage / 100) * totalDistance)
FindPointAtPercentage ==
    /\ pc = "indexed"
    /\ (searchPercentage * searchTotal) % 100 = 0
    /\ queryDistance' = (searchPercentage * searchTotal) \div 100
    /\ pointAtDistance' = findPointAtDistance(elevationProfile, queryDistance')
    /\ pc' = "compared"
    /\ UNCHANGED <<segments, codecVars, engineVars, dayVars, sessionVars,
                   nearVars, searchVars, trackCoords, elevationProfile,
                   maxChartPoints, chartPoints>>

NextSearch == PercentageToCoordIndex \/ FindPointAtPercentage

SpecSearch == InitSearch /\ [][NextSearch]_vars

\* -------------------------------------------------- inputs of the session
\* pieces of a link's route parameter and of its days parameter; a link
\* carries up to MaxTokens (MaxDayPieces) consecutive pieces of these
RouteTokenSeq ==
    << <<"g", "1">>, <<"t", "2">>, <<"g", "3">>, <<"x", "1">>, <<"t", "1">>,
       <<"g", "2">>, <<"g">> >>

DayTokenSeq ==
    << <<"7", "5", ".", "5">>, <<"2", "5">>, <<"0">>, <<"5", "0">>,
       <<"1", "0", "0">>, <<"x">>, <<"9", "9", ".", "6">>, <<"-", "5">>,
       <<"0", ".", "4">>, <<"5", "x">> >>

Windows(tokens, maxPieces) ==
    UNION { { SubSeq(tokens, first, first + n - 1) :
                first \in 1..(Len(tokens) - n + 1) } : n \in 0..maxPieces }

SessionRouteParams ==
    { JoinBy(w, "-") : w \in Windows(RouteTokenSeq, MaxTokens) }

SessionDaysParams ==
    { JoinBy(w, ",") : w \in Windows(DayTokenSeq, MaxDayPieces) }

InitSession ==
    /\ pc = "session"
    /\ segments \in TypeLists
    /\ param \in SessionRouteParams
    /\ daysParam \in SessionDaysParams
    /\ selections = EmptyMap /\ savedSelections = EmptyMap
    /\ isBuilding = FALSE
    /\ numberOfDays = 1 /\ breakpoints = <<>>
    /\ effects = {"mount"}
    /\ blendedRoute = buildBlendedRoute(segments, EmptyMap)
    /\ decoded = EmptyMap
    /\ daySplits = <<>> /\ breakpointCoordinates = <<>>
    /\ EngineIdle
    /\ ProfileIdle
    /\ NearIdle
    /\ SearchIdle

\* the effects of one commit, in the order of their declaration, and the
\* render that their state updates cause
RunEffects ==
    /\ pc = "session"
    /\ effects # {}
    /\ LET rendered == [selections |-> selections,
                        savedSelections |-> savedSelections,
                        breakpoints |-> breakpoints,
                        numberOfDays |-> numberOfDays,
                        changed |-> {}]
           afterReset == ResetEffect(effects, rendered)
           afterLoad == LoadEffect(effects, afterReset, segments, param,
                                   daysParam)
           link == LinkEffect(effects, savedSelections, breakpoints, segments,
                              [route |-> param, days |-> daysParam])
           route == buildBlendedRoute(segments, afterLoad.savedSelections)
       IN /\ selections' = afterLoad.selections
          /\ savedSelections' = afterLoad.savedSelections
          /\ numberOfDays' = afterLoad.numberOfDays
          /\ blendedRoute' = route
          /\ breakpoints' = RenderedBreakpoints(route, afterLoad.breakpoints)
          /\ daySplits' = daySplitsMemo(route, afterLoad.breakpoints)
          /\ breakpointCoordinates' =
                breakpointCoordinatesMemo(route, breakpoints')
          /\ effects' = afterLoad.changed
          /\ param' = link.route
          /\ daysParam' = link.days
    /\ UNCHANGED <<pc, segments, decoded, engineVars, profileVars, nearVars,
                   searchVars, isBuilding>>

\* the ids a choice can be made for: the rows of the segment table
SelectableAnyIds(segs) == SegmentIds(segs)

\* divergingSegments.map((segment, index) => ... selectSegment(segment.id, ...
SelectableIds(segs) == DivergingIds(segs)

\* a blended route built from the in-progress selections
blendedRouteOfInProgress(segs, saved, inProgress) ==
    buildBlendedRoute(segs, inProgress)

\* const blendedRoute = useMemo(() => buildBlendedRoute(segments,
\* savedSelections), [segments, savedSelections])
blendedRouteMemo(segs, saved, inProgress) == buildBlendedRoute(segs, saved)

\* an isComplete that holds for every selection map
IsCompleteAlways(segs, sel) == TRUE

\* isComplete
IsComplete(segs, sel) == AllSelected(segs, sel)

\* enterBuildMode(): "Build Route" / "Edit Route", shown outside build mode
EnterBuildMode ==
    /\ pc = "session" /\ effects = {}
    /\ ~isBuilding
    /\ selections' = savedSelections
    /\ isBuilding' = TRUE
    /\ UNCHANGED <<pc, segments, blendedRoute, param, decoded, engineVars,
                   dayVars, profileVars, nearVars, searchVars, savedSelections,
                   numberOfDays, daysParam, effects>>

\* selectSegment(segmentId, choice): a choice button of the segment table,
\* which is shown in build mode
SelectSegment ==
    /\ pc = "session" /\ effects = {}
    /\ isBuilding
    /\ \E segmentId \in SelectableIds(segments), choice \in RouteChoices :
          selections' = MapSet(selections, segmentId, choice)
    /\ blendedRoute' = blendedRouteMemo(segments, savedSelections, selections')
    /\ breakpoints' = RenderedBreakpoints(blendedRoute', breakpoints)
    /\ daySplits' = daySplitsMemo(blendedRoute', breakpoints)
    /\ breakpointCoordinates' =
          breakpointCoordinatesMemo(blendedRoute', breakpoints')
    /\ UNCHANGED <<pc, segments, param, decoded, engineVars, profileVars,
                   sessionVars, nearVars, searchVars>>

\* an exit that keeps the in-progress selections
selectionsKeptOnExit(save, inProgress, saved) == inProgress

\* if (!save) setSelections(new Map(savedSelections))
selectionsOnExit(save, inProgress, saved) ==
    IF ~save THEN saved ELSE inProgress

\* exitBuildMode(save): "Cancel", and "Done", which is disabled unless
\* isComplete
ExitBuildMode ==
    /\ pc = "session" /\ effects = {}
    /\ isBuilding
    /\ \E save \in BOOLEAN :
          /\ save => IsComplete(segments, selections)
          /\ IF save /\ IsComplete(segments, selections)
             THEN /\ savedSelections' = selections
                  /\ effects' = {"savedSelections"}
                  /\ blendedRoute' = buildBlendedRoute(segments, selections)
                  /\ breakpoints' =
                        RenderedBreakpoints(
                            buildBlendedRoute(segments, selections),
                            breakpoints)
                  /\ daySplits' =
                        daySplitsMemo(buildBlendedRoute(segments, selections),
                                      breakpoints)
                  /\ breakpointCoordinates' =
                        breakpointCoordinatesMemo(
                            buildBlendedRoute(segments, selections),
                            breakpoints')
             ELSE UNCHANGED <<savedSelections, effects, blendedRoute,
                              dayVars>>
          /\ selections' = selectionsOnExit(save, selections, savedSelections)
    /\ isBuilding' = FALSE
    /\ UNCHANGED <<pc, segments, param, decoded, engineVars, profileVars,
                   nearVars, searchVars, numberOfDays, daysParam>>

\* resetSelections(): "Clear", shown outside build mode beside a blended route
ResetSelections ==
    /\ pc = "session" /\ effects = {}
    /\ ~isBuilding
    /\ blendedRoute # Null
    /\ selections' = EmptyMap
    /\ savedSelections' = EmptyMap
    /\ effects' = {"savedSelections"}
    /\ blendedRoute' = buildBlendedRoute(segments, EmptyMap)
    /\ breakpoints' = RenderedBreakpoints(buildBlendedRoute(segments, EmptyMap),
                                          breakpoints)
    /\ daySplits' = daySplitsMemo(buildBlendedRoute(segments, EmptyMap),
                                  breakpoints)
    /\ breakpointCoordinates' =
          breakpointCoordinatesMemo(buildBlendedRoute(segments, EmptyMap),
                                    breakpoints')
    /\ UNCHANGED <<pc, segments, param, decoded, engineVars, profileVars,
                   nearVars, searchVars, isBuilding, numberOfDays, daysParam>>

NextSession ==
    \/ RunEffects
    \/ EnterBuildMode
    \/ SelectSegment
    \/ ExitBuildMode
    \/ ResetSelections

SpecSession == InitSession /\ [][NextSession]_vars

\* the session opened without a link
InitEmptySession ==
    /\ InitSession
    /\ param = <<>>
    /\ daysParam = <<>>

SpecEmptySession == InitEmptySession /\ [][NextSession]_vars

\* ------------------------------------------ the session with its day planner
\* handleDayCountChange: the day selector, shown with the blended route
\* outside build mode, changed to another number of days
HandleDayCountChange ==
    /\ pc = "session" /\ effects = {}
    /\ ~isBuilding
    /\ blendedRoute # Null
    /\ \E days \in 1..MaxDays :
          /\ days # numberOfDays
          /\ numberOfDays' = days
          /\ LET newBreakpoints == IF days > 1 THEN evenBreakpoints(days)
                                   ELSE <<>>
             IN /\ breakpoints' = RenderedBreakpoints(blendedRoute,
                                                      newBreakpoints)
                /\ daySplits' = daySplitsMemo(blendedRoute, newBreakpoints)
                /\ breakpointCoordinates' =
                      breakpointCoordinatesMemo(blendedRoute, breakpoints')
    /\ effects' = {"breakpoints"}
    /\ UNCHANGED <<pc, segments, selections, blendedRoute, param, decoded,
                   engineVars, profileVars, nearVars, searchVars, isBuilding,
                   savedSelections, daysParam>>

\* places of the pointer along the track: left of it, on it, right of it
PlannerPositions == { Fraction(0 - 10), Fraction(40), Fraction(110) }

\* a handle of the slider, shown when numberOfDays > 1, dragged to a place:
\* handleMove hands the new values to setBreakpoints
DragBreakpoint ==
    /\ pc = "session" /\ effects = {}
    /\ ~isBuilding
    /\ blendedRoute # Null
    /\ numberOfDays > 1
    /\ \E draggingIndex \in 0..(Len(breakpoints) - 1),
          position \in PlannerPositions :
          LET newValues == handleMove(breakpoints, draggingIndex, position,
                                      SliderMin, SliderMax, SliderMinGap)
          IN /\ breakpoints' = RenderedBreakpoints(blendedRoute, newValues)
             /\ daySplits' = daySplitsMemo(blendedRoute, newValues)
             /\ breakpointCoordinates' =
                   breakpointCoordinatesMemo(blendedRoute, breakpoints')
    /\ effects' = {"breakpoints"}
    /\ UNCHANGED <<pc, segments, selections, blendedRoute, param, decoded,
                   engineVars, profileVars, nearVars, searchVars, isBuilding,
                   savedSelections, numberOfDays, daysParam>>

\* the links the planner's session is opened with: none, a route, a route
\* with a day split
PlannerRouteParams ==
    { JoinBy(w, "-") : w \in Windows(SubSeq(RouteTokenSeq, 1, 2), 2) }

PlannerDaysParams ==
    { JoinBy(w, ",") : w \in Windows(SubSeq(DayTokenSeq, 1, 2), 2) }

InitPlanner ==
    /\ InitSession
    /\ Len(segments) <= MaxPlanSegs
    /\ param \in PlannerRouteParams
    /\ daysParam \in PlannerDaysParams

NextPlanner ==
    \/ RunEffects
    \/ EnterBuildMode
    \/ SelectSegment
    \/ ExitBuildMode
    \/ ResetSelections
    \/ HandleDayCountChange
    \/ DragBreakpoint

SpecPlanner == InitPlanner /\ [][NextPlanner]_vars

\* ------------------------------------------------- the slider on its own
SliderValueSet == {0, 5, 7, 10, 15, 50, 90, 95, 100}

\* the values prop: any list of numbers
SliderValueLists ==
    UNION { [1..n -> { Fraction(v) : v \in SliderValueSet }] :
            n \in 0..MaxHandles }

\* places of the pointer: off the track on either side, on its ends, near
\* the ends, between whole percentages
SliderPositions ==
    { Fraction(v) : v \in {0 - 10, 0, 3, 5, 8, 12, 50, 93, 95, 100, 110} }
        \cup { [num |-> 25, den |-> 2] }

InitSlider ==
    /\ pc = "slider"
    /\ breakpoints \in SliderValueLists
    /\ daySplits = <<>> /\ breakpointCoordinates = <<>>
    /\ segments = <<>> /\ selections = EmptyMap /\ blendedRoute = Null
    /\ param = <<>> /\ decoded = EmptyMap
    /\ EngineIdle
    /\ ProfileIdle
    /\ SessionIdle
    /\ NearIdle
    /\ SearchIdle

\* handleMove(clientX) while a handle is dragged, and onChange(newValues)
HandleMove ==
    /\ pc \in {"slider", "moved"}
    /\ \E draggingIndex \in 0..(Len(breakpoints) - 1),
          position \in SliderPositions :
          breakpoints' = handleMove(breakpoints, draggingIndex, position,
                                    SliderMin, SliderMax, SliderMinGap)
    /\ pc' = "moved"
    /\ UNCHANGED <<segments, codecVars, engineVars, profileVars, sessionVars,
                   nearVars, searchVars, daySplits, breakpointCoordinates>>

NextSlider == HandleMove

SpecSlider == InitSlider /\ [][NextSlider]_vars

\* the session from the mount of the provider until its effects have settled,
\* with no input in between
NextMount == RunEffects

SpecMount == InitSession /\ [][NextMount]_vars

\* ---------------------------------------------------------------- claims
\* the option of segments[i] that the selections choose
ChosenOption(i) ==
    IF segments[i].type = "diverging" /\ segments[i].id \in DOMAIN selections
       /\ selections[segments[i].id] = "tarmac"
    THEN segments[i].tarmac
    ELSE segments[i].gravel

RECURSIVE ChosenCountSum(_)
ChosenCountSum(n) ==
    IF n = 0 THEN 0 ELSE ChosenCountSum(n - 1) + Len(ChosenOption(n).coordinates)

UnselectedDiverging ==
    { i \in 1..Len(segments) :
        segments[i].type = "diverging" /\ segments[i].id \notin DOMAIN selections }

\* C1: buildBlendedRoute returns null if and only if some diverging segment
\* has no entry in the selections; every other input yields a route.
C1_NullIffIncomplete ==
    pc = "assembled" => ((blendedRoute = Null) <=> (UnselectedDiverging # {}))

C1_Witness ==
    /\ pc = "assembled"
    /\ blendedRoute = Null
    /\ Cardinality(DivergingIds(segments)) = 2
    /\ Cardinality(UnselectedDiverging) = 1

\* C2 (as stated): for any segment list and any complete selection set the
\* route has sum(chosen coordinate counts) - (number of segments - 1)
\* coordinates.
C2_CountAnyList ==
    (pc = "assembled" /\ blendedRoute # Null)
        => Len(blendedRoute[1].coordinates)
             = ChosenCountSum(Len(segments)) - (Len(segments) - 1)

\* C2 (amended): the count holds for a non-empty segment list in which the
\* chosen option of every segment has at least one coordinate.
C2_CountNonEmptyOptions ==
    (/\ pc = "assembled" /\ blendedRoute # Null
     /\ Len(segments) >= 1
     /\ \A i \in 1..Len(segments) : Len(ChosenOption(i).coordinates) >= 1)
        => Len(blendedRoute[1].coordinates)
             = ChosenCountSum(Len(segments)) - (Len(segments) - 1)

C2_Witness ==
    /\ pc = "assembled" /\ blendedRoute # Null
    /\ Len(segments) = 3
    /\ \A i \in 1..Len(segments) : Len(ChosenOption(i).coordinates) >= 1
    /\ \E i \in 1..Len(segments) :
          /\ segments[i].type = "diverging"
          /\ selections[segments[i].id] = "tarmac"
          /\ Len(segments[i].tarmac.coordinates) = 2
    /\ Len(blendedRoute[1].coordinates) = ChosenCountSum(3) - 2

\* the pieces of the link parameter, as pairs of first and last position:
\* maximal runs without a hyphen (possibly empty)
Pieces ==
    { ab \in (1..(Len(param) + 1)) \X (0..Len(param)) :
        /\ ab[2] >= ab[1] - 1
        /\ ab[1] = 1 \/ param[ab[1] - 1] = "-"
        /\ ab[2] = Len(param) \/ param[ab[2] + 1] = "-"
        /\ \A k \in ab[1]..ab[2] : param[k] # "-" }

RECURSIVE Pow10(_)
Pow10(n) == IF n = 0 THEN 1 ELSE 10 * Pow10(n - 1)

RECURSIVE NumeralSum(_, _, _)
NumeralSum(a, b, k) ==
    IF k > b THEN 0
    ELSE DigitValue(param[k]) * Pow10(b - k) + NumeralSum(a, b, k + 1)

\* a letter g or t followed by one or more digits
WellFormed(ab) ==
    /\ ab[2] >= ab[1] + 1
    /\ param[ab[1]] \in {"g", "t"}
    /\ \A k \in (ab[1] + 1)..ab[2] : IsDigit(param[k])

PieceNumber(ab) == NumeralSum(ab[1] + 1, ab[2], ab[1] + 1)

\* the piece names an existing diverging segment
ValidPiece(ab) ==
    /\ WellFormed(ab)
    /\ \E i \in 1..Len(segments) :
          segments[i].order = PieceNumber(ab) /\ segments[i].type = "diverging"

ValidPieces == { ab \in Pieces : ValidPiece(ab) }

PieceId(ab) ==
    segments[CHOOSE i \in 1..Len(segments) : segments[i].order = PieceNumber(ab)].id

PieceChoice(ab) == IF param[ab[1]] = "g" THEN "gravel" ELSE "tarmac"

LastValidPieceFor(id) ==
    CHOOSE ab \in ValidPieces :
        /\ PieceId(ab) = id
        /\ \A cd \in ValidPieces : PieceId(cd) = id => cd[1] <= ab[1]

\* C3: decoding the encoding of a selection map over diverging segment ids
\* gives back the same map.
C3_RoundTrip == pc = "roundtrip" => decoded = selections

C3_Witness ==
    /\ pc = "roundtrip"
    /\ decoded = selections
    /\ \E i \in 10..Len(segments) : segments[i].id \in DOMAIN selections
    /\ \E k \in DOMAIN selections : selections[k] = "gravel"
    /\ \E k \in DOMAIN selections : selections[k] = "tarmac"

\* C4: decoding any link parameter yields exactly the assignments of its
\* valid pieces (a later piece for the same segment overrides an earlier
\* one); ill-formed pieces and pieces naming a missing or shared segment are
\* skipped; all keys are ids of diverging segments; the empty parameter
\* yields the empty map.
C4_DecodeValidPiecesOnly ==
    pc = "loaded" =>
        /\ DOMAIN decoded \subseteq DivergingIds(segments)
        /\ DOMAIN decoded = { PieceId(ab) : ab \in ValidPieces }
        /\ \A id \in DOMAIN decoded :
              decoded[id] = PieceChoice(LastValidPieceFor(id))
        /\ param = <<>> => decoded = EmptyMap

C4_Witness ==
    /\ pc = "loaded"
    /\ decoded # EmptyMap
    /\ \E ab \in Pieces : ~WellFormed(ab)
    /\ \E ab \in Pieces :
          /\ WellFormed(ab)
          /\ \E i \in 1..Len(segments) :
                segments[i].order = PieceNumber(ab) /\ segments[i].type = "shared"

\* the spans from which the engine builds the segments
MergedSpans ==
    [i \in 1..(Len(mergedTransitions) - 1) |-> SpanOf(mergedTransitions, i - 1)]

RawSpans == [i \in 1..(Len(transitions) - 1) |-> SpanOf(transitions, i - 1)]

SpanLength(span) == span.endDist - span.startDist

AfterMerge == pc \in {"merged", "done"}

\* C5: after the merge pass the spans are contiguous and cover the whole
\* primary track: the first starts at distance 0, each starts where the
\* previous one ends, the last ends at the final distance of the track.
C5_SpansCoverTrack ==
    AfterMerge =>
        /\ Len(MergedSpans) >= 1
        /\ MergedSpans[1].startDist = 0
        /\ \A i \in 1..(Len(MergedSpans) - 1) :
              MergedSpans[i + 1].startDist = MergedSpans[i].endDist
        /\ MergedSpans[Len(MergedSpans)].endDist
             = gravelRoute[Len(gravelRoute)].distanceFromStart

\* C6: when at least two spans existed before merging, no span of the merged
\* list other than the first or the last is shorter than the minimum length.
C6_InteriorSpansLong ==
    (AfterMerge /\ Len(RawSpans) >= 2) =>
        \A i \in 2..(Len(MergedSpans) - 1) :
            SpanLength(MergedSpans[i]) >= MIN_SEGMENT_LENGTH_METERS

C6_Witness ==
    /\ AfterMerge
    /\ \E i \in 2..(Len(RawSpans) - 1) :
          SpanLength(RawSpans[i]) < MIN_SEGMENT_LENGTH_METERS
    /\ Len(MergedSpans) >= 3
    /\ Len(MergedSpans) < Len(RawSpans)

\* C7: the output segments have order 1, 2, ..., N in list order and each id
\* is 'seg-' followed by that order.
C7_OrdersContiguous ==
    pc = "done" =>
        \A k \in 1..Len(segments) :
            /\ segments[k].order = k
            /\ segments[k].id = "seg-" \o ToString(segments[k].order)

C7_Witness ==
    /\ pc = "done"
    /\ Len(segments) >= 3
    /\ Len(MergedSpans) < Len(RawSpans)

AllOverlapping ==
    \A k \in 1..Len(overlapAnalysis) : overlapAnalysis[k].isOverlapping

TrackCoordinates(coords) ==
    [k \in 1..Len(coords) |-> <<coords[k].lng, coords[k].lat, coords[k].elevation>>]

\* C8: if every sampled primary point is within the overlap threshold of the
\* secondary track, the output is exactly one segment, shared, whose gravel
\* coordinates are the whole primary track, however short the route.
C8_AllOverlapOneShared ==
    (pc = "done" /\ AllOverlapping) =>
        /\ Len(segments) = 1
        /\ segments[1].type = "shared"
        /\ segments[1].gravel.coordinates = TrackCoordinates(gravelCoords)

C8_Witness ==
    /\ pc = "done" /\ AllOverlapping
    /\ Len(gravelCoords) = 3
    /\ gravelRoute[3].distanceFromStart < MIN_SEGMENT_LENGTH_METERS
    /\ tarmacCoords[1].lat = 0 /\ tarmacCoords[2].lat # 0 /\ tarmacCoords[3].lat = 0
    /\ Len(segments) = 1

\* C9: with an empty primary or secondary track the segmentation run does
\* not raise and outputs an empty segment list.
C9_EmptyTrackEmptyOutput ==
    (Len(gravelCoords) = 0 \/ Len(tarmacCoords) = 0) =>
        /\ pc # "raised"
        /\ pc = "done" => segments = <<>>

\* the breakpoints lie strictly between 0 and 100
BreakpointsInside ==
    \A k \in 1..Len(breakpoints) : breakpoints[k] > 0 /\ breakpoints[k] < 100

\* C10: for n breakpoints strictly between 0 and 100 generateDaySplits
\* returns n + 1 DaySplits numbered 1..n+1 whose percentage ranges partition
\* [0,100]: the first starts at 0, the last ends at 100, each starts where
\* the previous one ends.
C10_DaysPartitionPercent ==
    (pc \in {"split", "marked"} /\ BreakpointsInside) =>
        /\ Len(daySplits) = Len(breakpoints) + 1
        /\ \A i \in 1..Len(daySplits) : daySplits[i].dayNumber = i
        /\ daySplits[1].startPercentage = 0
        /\ daySplits[Len(daySplits)].endPercentage = 100
        /\ \A i \in 2..Len(daySplits) :
              daySplits[i].startPercentage = daySplits[i - 1].endPercentage

C10_Witness ==
    /\ pc = "split"
    /\ Len(breakpoints) = 2
    /\ Len(daySplits) = 3
    /\ daySplits[2].startPercentage = 25 /\ daySplits[2].endPercentage = 75
    /\ Len(blendedRoute[1].coordinates) >= 3

\* C11: in the DaySplits returned by generateDaySplits for breakpoints
\* strictly between 0 and 100, startCoordIndex is non-decreasing from day to
\* day, every day has startCoordIndex <= endCoordIndex, the first day starts
\* at index 0, the last day ends at the last coordinate index, and each day
\* starts at the index where the previous day ends.
C11_DayIndicesChain ==
    (pc \in {"split", "marked"} /\ BreakpointsInside) =>
        /\ \A i \in 2..Len(daySplits) :
              /\ daySplits[i - 1].startCoordIndex <= daySplits[i].startCoordIndex
              /\ daySplits[i].startCoordIndex = daySplits[i - 1].endCoordIndex
        /\ \A i \in 1..Len(daySplits) :
              daySplits[i].startCoordIndex <= daySplits[i].endCoordIndex
        /\ daySplits[1].startCoordIndex = 0
        /\ daySplits[Len(daySplits)].endCoordIndex
              = Len(blendedRoute[1].coordinates) - 1

\* C12: a call to generateDaySplits, getBreakpointCoordinates or
\* buildBlendedRoute leaves its arguments unchanged: the breakpoints list
\* holds the same values in the same order after the call, and so do the
\* blended route, the segment list and the selection map.
C12_ArgumentsUnchanged ==
    [][(GenerateDaySplits \/ GetBreakpointCoordinates) =>
          /\ breakpoints' = breakpoints
          /\ blendedRoute' = blendedRoute
          /\ segments' = segments
          /\ selections' = selections]_vars

\* C17: every coordIndex produced by generateDaySplits or
\* getBreakpointCoordinates, for any percentage and any blended route, is a
\* valid index into the route's coordinates, and no Breakpoint carries an
\* undefined coordinate; or else the result is empty.
ValidCoordIndex(index) ==
    index >= 0 /\ index < Len(blendedRoute[1].coordinates)

C17_IndicesValid ==
    /\ pc \in {"split", "marked"} =>
          \A i \in 1..Len(daySplits) :
              /\ ValidCoordIndex(daySplits[i].startCoordIndex)
              /\ ValidCoordIndex(daySplits[i].endCoordIndex)
    /\ pc = "marked" =>
          \A k \in 1..Len(breakpointCoordinates) :
              /\ ValidCoordIndex(breakpointCoordinates[k].coordIndex)
              /\ breakpointCoordinates[k].coordinates # Null

\* C13: for any profile with non-decreasing distances and any target
\* distance, findPointAtDistance returns null when the profile is empty and
\* otherwise a point whose absolute distance difference to the target is
\* minimal over all points of the profile.
DistanceDiff(i) == Abs(elevationProfile[i].distance - queryDistance)

C13_ClosestPoint ==
    pc = "found" =>
        IF Len(elevationProfile) = 0 THEN pointAtDistance = Null
        ELSE /\ pointAtDistance # Null
             /\ pointAtDistance[1] \in 0..(Len(elevationProfile) - 1)
             /\ \A i \in 1..Len(elevationProfile) :
                   DistanceDiff(pointAtDistance[1] + 1) <= DistanceDiff(i)

\* the target lies strictly between two points and nearer to the earlier one
C13_Witness ==
    /\ pc = "found"
    /\ Len(elevationProfile) >= 3
    /\ pointAtDistance # Null
    /\ pointAtDistance[1] + 2 <= Len(elevationProfile)
    /\ elevationProfile[pointAtDistance[1] + 1].distance < queryDistance
    /\ queryDistance < elevationProfile[pointAtDistance[1] + 2].distance
    /\ pointAtDistance[1] > 0

\* C14: for any profile with non-decreasing distances (consecutive points may
\* coincide) and any index i, findPointAtDistance(profile, profile[i].distance)
\* returns the point at index i or at an index adjacent to i.
C14_RoundTripAdjacent ==
    pc = "found" =>
        \A i \in 1..Len(elevationProfile) :
            elevationProfile[i].distance = queryDistance =>
                /\ pointAtDistance # Null
                /\ Abs(pointAtDistance[1] - (i - 1)) <= 1

\* C14 as amended: the lookup returns the first point of the profile whose
\* distance equals profile[i].distance; its index is at most i, and it is i
\* when the point before i lies at a smaller distance.
C14_RoundTripFirstOfRun ==
    pc = "found" =>
        \A i \in 1..Len(elevationProfile) :
            elevationProfile[i].distance = queryDistance =>
                /\ pointAtDistance # Null
                /\ pointAtDistance[1] <= i - 1
                /\ elevationProfile[pointAtDistance[1] + 1].distance
                      = queryDistance
                /\ \A j \in 1..pointAtDistance[1] :
                      elevationProfile[j].distance < queryDistance
                /\ (i = 1 \/ elevationProfile[i - 1].distance < queryDistance)
                      => pointAtDistance[1] = i - 1

\* three points at one distance, after an earlier point, are looked up
C14_Witness ==
    /\ pc = "found"
    /\ pointAtDistance # Null
    /\ pointAtDistance[1] >= 1
    /\ Len(elevationProfile) >= pointAtDistance[1] + 3
    /\ elevationProfile[pointAtDistance[1] + 3].distance = queryDistance

\* C15: downsampleProfile returns the input unchanged when its length is at
\* most maxPoints; otherwise it returns, in order, exactly the points at
\* indices 0, k, 2k, ... with k = ceil(length / maxPoints), followed by the
\* final point if its index is not a multiple of k.
CeilDiv(a, b) == (a + b - 1) \div b

ExpectedStride(length, k) ==
    LET multiples == [j \in 1..CeilDiv(length, k) |-> (j - 1) * k]
    IN IF (length - 1) % k = 0 THEN multiples
       ELSE Append(multiples, length - 1)

C15_StridePlusLast ==
    pc = "charted" =>
        LET length == Len(elevationProfile)
        IN IF length <= maxChartPoints
           THEN chartPoints = [i \in 1..length |-> i - 1]
           ELSE /\ chartPoints
                     = ExpectedStride(length, CeilDiv(length, maxChartPoints))
                /\ chartPoints[1] = 0
                /\ chartPoints[Len(chartPoints)] = length - 1

\* the stride skips the final point, which is appended
C15_Witness ==
    /\ pc = "charted"
    /\ Len(elevationProfile) = 6
    /\ maxChartPoints = 4
    /\ chartPoints = <<0, 2, 4, 5>>

\* C16: for every profile and every maxPoints >= 1 the downsampled profile
\* has at most maxPoints points.
C16_AtMostMaxPoints ==
    pc = "charted" => Len(chartPoints) <= maxChartPoints

\* C18: extractElevationProfile returns exactly one profile point per input
\* coordinate in input order, whose distances are non-decreasing, and grade
\* smoothing changes only the grade: distance, elevation, lat and lng of
\* every point equal the unsmoothed values.
C18_ProfileShape ==
    pc \in {"profiled", "found", "charted"} =>
        LET raw == UnsmoothedProfile(trackCoords)
        IN /\ Len(elevationProfile) = Len(trackCoords)
           /\ \A i \in 1..Len(trackCoords) :
                 /\ elevationProfile[i].lng = trackCoords[i][1]
                 /\ elevationProfile[i].lat = trackCoords[i][2]
                 /\ elevationProfile[i].elevation
                       = PositionElevation(trackCoords[i])
                 /\ elevationProfile[i].distance = raw[i].distance
                 /\ elevationProfile[i].elevation = raw[i].elevation
                 /\ elevationProfile[i].lat = raw[i].lat
                 /\ elevationProfile[i].lng = raw[i].lng
           /\ \A i \in 2..Len(elevationProfile) :
                 elevationProfile[i - 1].distance
                     <= elevationProfile[i].distance

\* a profile whose smoothed grade differs from the unsmoothed grade
C18_Witness ==
    /\ pc = "profiled"
    /\ Len(elevationProfile) = MaxProfilePts
    /\ \E i \in 1..Len(elevationProfile) :
          LET g == elevationProfile[i].grade
              r == UnsmoothedProfile(trackCoords)[i].grade
          IN g.num * r.den # r.num * g.den
    /\ \E i \in 2..Len(elevationProfile) :
          elevationProfile[i].distance = elevationProfile[i - 1].distance

\* C19: in every state reachable through the session operations (link
\* loading, enterBuildMode, selectSegment, exitBuildMode, resetSelections),
\* every key of the in-progress selection map and of the saved selection map
\* is the id of a segment of type diverging.
IsDivergingId(id) ==
    \E i \in 1..Len(segments) :
        segments[i].id = id /\ segments[i].type = "diverging"

IsNumeral(piece) ==
    Len(piece) >= 1 /\ \A i \in 1..Len(piece) : IsDigit(piece[i])

\* the integer v is a nearest integer of the fraction b
IsNearestInteger(v, b) == Abs(2 * v * b.den - 2 * b.num) <= b.den

IsInsideOpen(b) == b.num > 0 /\ b.num < 100 * b.den

\* the pieces of the days parameter that start with a decimal literal
ParsedPieces(str) ==
    LET parts == SplitBy(str, ",")
    IN { k \in 1..Len(parts) : parseFloat(parts[k]) # Null }

C20_DaysLinkIntegersInRange ==
    [][RunEffects =>
        /\ (savedSelections # EmptyMap /\ Len(breakpoints) > 0) =>
              LET pieces == SplitBy(daysParam', ",")
              IN /\ Len(pieces) = Len(breakpoints)
                 /\ \A k \in 1..Len(pieces) :
                       /\ IsNumeral(pieces[k])
                       /\ IsNearestInteger(parseInt(pieces[k]), breakpoints[k])
        /\ ("mount" \in effects) =>
              /\ \A k \in 1..Len(breakpoints') : IsInsideOpen(breakpoints'[k])
              /\ Len(breakpoints') <= Cardinality(ParsedPieces(daysParam))
      ]_vars

\* the link 75.5,25 was accepted and written back, rounded, as 25,76
C20_Witness ==
    /\ pc = "session"
    /\ daysParam = <<"2", "5", ",", "7", "6">>
    /\ savedSelections # EmptyMap

\* ---- C21
\* the distance from the query coordinate to point i (1-based) of the profile
\* and of the route
ProfileDistanceTo(i) ==
    haversineDistanceKm(queryCoord.lat, queryCoord.lng,
                        elevationProfile[i].lat, elevationProfile[i].lng)

RouteDistanceTo(i) == haversineDistance(queryCoord, gravelRoute[i])

\* C21: the nearest-point lookups return a point at the least distance from
\* the query coordinate over the whole sequence, and of several points at
\* that distance the earliest one
C21_NearestIsFirstMinimum ==
    /\ (pc = "closest" /\ Len(elevationProfile) > 0) =>
          /\ closestPoint # Null
          /\ closestPoint[1] \in 0..(Len(elevationProfile) - 1)
          /\ \A i \in 1..Len(elevationProfile) :
                /\ ProfileDistanceTo(closestPoint[1] + 1) <= ProfileDistanceTo(i)
                /\ ProfileDistanceTo(i) = ProfileDistanceTo(closestPoint[1] + 1)
                      => closestPoint[1] + 1 <= i
    /\ (pc = "nearest" /\ Len(gravelRoute) > 0) =>
          \E k \in 1..Len(gravelRoute) :
              /\ nearestPoint.point = Some(gravelRoute[k])
              /\ nearestPoint.distance = RouteDistanceTo(k)
              /\ \A i \in 1..Len(gravelRoute) :
                    /\ RouteDistanceTo(k) <= RouteDistanceTo(i)
                    /\ RouteDistanceTo(i) = RouteDistanceTo(k) => k <= i

\* a lookup in which a later point is exactly as near as the returned one
C21_Witness ==
    \/ /\ pc = "closest" /\ closestPoint # Null
       /\ \E i \in 1..Len(elevationProfile) :
             /\ i > closestPoint[1] + 1
             /\ ProfileDistanceTo(i) = ProfileDistanceTo(closestPoint[1] + 1)
             /\ elevationProfile[i].lng # elevationProfile[closestPoint[1] + 1].lng
       /\ closestPoint[1] > 0
    \/ /\ pc = "nearest" /\ nearestPoint.point # Null
       /\ \E i, k \in 1..Len(gravelRoute) :
             /\ nearestPoint.point = Some(gravelRoute[k])
             /\ 1 < k /\ k < i
             /\ RouteDistanceTo(i) = RouteDistanceTo(k)

\* ---- C22
\* the profile has the same distances as the cumulative distance list
SameDistances ==
    LET distances == calculateCumulativeDistances(trackCoords)
    IN /\ Len(elevationProfile) = Len(distances)
       /\ \A i \in 1..Len(distances) :
             elevationProfile[i].distance = distances[i]

\* points i and i + 1 (1-based) lie on either side of the target, exactly as
\* far from it
EquidistantNeighbours(i) ==
    /\ elevationProfile[i].distance < queryDistance
    /\ queryDistance < elevationProfile[i + 1].distance
    /\ queryDistance - elevationProfile[i].distance
          = elevationProfile[i + 1].distance - queryDistance

\* C22: for 0 < p < 100 percentageToCoordIndex returns the index of the point
\* that findPointAtDistance returns for the target p / 100 * total on a
\* profile with the same distances, and when the two neighbouring candidates
\* are exactly equidistant from the target both return the later one
C22_SearchesAgree ==
    (pc = "compared" /\ SameDistances) =>
        /\ pointAtDistance = Some(searchIndex)
        /\ \A i \in 1..(Len(elevationProfile) - 1) :
              EquidistantNeighbours(i) =>
                  /\ searchIndex = i
                  /\ pointAtDistance = Some(i)

\* both searches have run on a target half way between two points
C22_Witness ==
    /\ pc = "compared" /\ SameDistances
    /\ \E i \in 1..(Len(elevationProfile) - 1) : EquidistantNeighbours(i)
    /\ searchIndex > 1

\* ---- C23
\* the primary track as a coordinate sequence [lng, lat, elevation]
PrimaryCoordinates ==
    [k \in 1..Len(gravelCoords) |->
        <<gravelCoords[k].lng, gravelCoords[k].lat, gravelCoords[k].elevation>>]

\* C23: with gravel selected for every diverging segment of the engine's
\* segment list, buildBlendedRoute returns exactly the coordinate sequence of
\* the primary track, no point missing and none repeated
C23_PrimaryReproduced ==
    pc = "spliced" =>
        /\ blendedRoute # Null
        /\ blendedRoute[1].coordinates = PrimaryCoordinates

\* ---- C24
\* the link read by the mount commit decodes to a selection and its days
\* parameter holds a valid breakpoint
LinkLoadsDays ==
    /\ "mount" \in effects
    /\ Len(param) > 0
    /\ decodeSelectionsFromUrl(param, segments) # EmptyMap
    /\ Len(loadedBreakpoints(daysParam)) > 0

\* C24: when the session starts with a link that decodes to a selection and
\* carries a valid breakpoint, the mount commit sets the breakpoints to the
\* loaded values and numberOfDays to their count plus 1, the commits it
\* triggers keep both, and when the effects have settled the link still
\* carries the days parameter
C24_LoadedDaysSurvive ==
    [][RunEffects =>
          /\ LinkLoadsDays =>
                /\ SortFractions(breakpoints')
                      = SortFractions(loadedBreakpoints(daysParam))
                /\ numberOfDays' = Len(loadedBreakpoints(daysParam)) + 1
          /\ ("mount" \notin effects /\ Len(breakpoints) > 0) =>
                /\ breakpoints' = breakpoints
                /\ numberOfDays' = numberOfDays
                /\ effects' = {} => Len(daysParam') > 0]_vars

C26_SelectChangesInProgressOnly ==
    [][SelectSegment =>
          /\ isBuilding /\ isBuilding'
          /\ UNCHANGED <<savedSelections, blendedRoute, breakpoints, param,
                         daysParam, numberOfDays, daySplits,
                         breakpointCoordinates, effects>>]_vars

\* in build mode, with a split blended route saved, the in-progress
\* selections have moved to a different complete route
C26_Witness ==
    /\ isBuilding
    /\ blendedRoute # Null
    /\ Len(breakpoints) > 0
    /\ selections # savedSelections
    /\ buildBlendedRoute(segments, selections) # Null
    /\ buildBlendedRoute(segments, selections) # blendedRoute

\* ---- C27
\* C27: in every state reachable from a session opened without a link by
\* enterBuildMode, selectSegment, exitBuildMode and resetSelections, the saved
\* selection map is empty or has a selection for every diverging segment
C27_SavedEmptyOrComplete ==
    \/ savedSelections = EmptyMap
    \/ DivergingIds(segments) \subseteq DOMAIN savedSelections

\* a route over two diverging segments has been saved
C27_Witness ==
    /\ ~isBuilding
    /\ effects = {}
    /\ Cardinality(DivergingIds(segments)) >= 2
    /\ savedSelections # EmptyMap
    /\ DOMAIN savedSelections = DivergingIds(segments)

GapsKept(values) ==
    /\ \A i \in 1..Len(values) :
          /\ ~FractionLess(values[i], Fraction(SliderMin + SliderMinGap))
          /\ ~FractionLess(Fraction(SliderMax - SliderMinGap), values[i])
    /\ \A i \in 1..(Len(values) - 1) :
          ~FractionLess(values[i + 1], FractionPlus(values[i], SliderMinGap))

\* C29: if the slider's values are sorted with every gap at least minGap and
\* lie within [min + minGap, max - minGap], dragging any handle to any place
\* yields values with the same property, as many as before, and only the
\* dragged handle's value changes
C29_DragKeepsGaps ==
    [][(HandleMove /\ GapsKept(breakpoints)) =>
          /\ GapsKept(breakpoints')
          /\ Len(breakpoints') = Len(breakpoints)
          /\ \E k \in 1..Len(breakpoints) :
                \A i \in 1..Len(breakpoints) :
                    i # k => breakpoints'[i] = breakpoints[i]]_vars

\* a handle has been dragged up to the gap from its neighbour
C29_Witness ==
    /\ pc = "moved"
    /\ Len(breakpoints) >= 2
    /\ GapsKept(breakpoints)
    /\ breakpoints[2] = FractionPlus(breakpoints[1], SliderMinGap)
    /\ breakpoints[1] = [num |-> 25, den |-> 2]

\* ---- C30
\* the breakpoints are in ascending order and strictly between 0 and 100
SortedInsideOpen(points) ==
    /\ \A i \in 1..Len(points) :
          /\ FractionLess(Fraction(0), points[i])
          /\ FractionLess(points[i], Fraction(100))
    /\ \A i \in 1..(Len(points) - 1) : ~FractionLess(points[i + 1], points[i])

\* C30: once the effects have settled, after any day-count selections, slider
\* drags, route saves, resets and link loads, numberOfDays is the number of
\* breakpoints plus 1, the breakpoints are sorted and strictly between 0 and
\* 100, and with a blended route and a breakpoint there are exactly
\* numberOfDays day splits
C30_DayCountConsistent ==
    (pc = "session" /\ effects = {}) =>
        /\ numberOfDays = Len(breakpoints) + 1
        /\ SortedInsideOpen(breakpoints)
        /\ (blendedRoute # Null /\ Len(breakpoints) > 0) =>
              Len(daySplits) = numberOfDays

\* a link-loaded route split into three days, with a handle dragged
C30_Witness ==
    /\ pc = "session" /\ effects = {}
    /\ savedSelections # EmptyMap
    /\ blendedRoute # Null
    /\ numberOfDays = 3
    /\ Len(daySplits) = 3
    /\ breakpoints[1] = Fraction(40)

====
